---- MODULE Spec2Model ----
(***************************************************************************)
(* Model of the FDO manufacturing station's voucher-transfer core:         *)
(*   - the DID resolver and its cache          (did_resolver.go)           *)
(*   - the owner key service                   (owner_key_service.go)      *)
(*   - the BeforeVoucherPersist orchestrator   (voucher_callback.go)       *)
(*                                                                         *)
(* Time is an integer clock.  Keys, URLs and documents are small symbolic  *)
(* values.  The cache table did_cache is a set of rows; the session        *)
(* state's database methods (query, insertOrIgnore, insert, exec) are      *)
(* modelled by what their SQL does on that set.                            *)
(***************************************************************************)
EXTENDS Integers, Sequences, FiniteSets, TLC

\* ------------------------------------------------------------------ bounds
MaxTime == 6          \* the clock runs 0..MaxTime
MaxDur  == 3          \* durations of the refresh-policy grid run 0..MaxDur
MaxFaultTime == 4     \* the clock of the runs with a failing store runs 0..MaxFaultTime

\* ------------------------------------------------------------------ values
WebURI  == "did:web:a"
WebURI2 == "did:web:b"
WebURIs == {WebURI, WebURI2}
KeyURI  == "did:key:z6Mk"
FooURI  == "did:foo:x"
NoColonURI == "not-a-did"
URIs    == {WebURI, KeyURI, FooURI, NoColonURI}

NoEntry == [none |-> TRUE]
NoKey   == [type |-> "nil"]

\* Key material a JWK can carry in its coordinates, and the material the
\* process's random source (crypto/rand) can yield to a key generator.
DocMat == "docXY"
GenMat == {"rnd1", "rnd2"}

Columns == {"did_uri", "public_key", "did_url", "timestamp",
            "last_refresh_attempt", "last_refresh_error", "last_used"}

VARIABLES
    config,        \* DIDResolver.config  (*DIDCache)
    sessionState,  \* DIDResolver.sessionState: "nil" | "nodb" | "db"
    did_cache,     \* the did_cache table: a set of rows
    clock,         \* time.Now()
    call,          \* the ResolveDIDKey invocation of each caller
    active,        \* the callers that run
    dbFaults,      \* whether statements on the session state can fail
    purged,        \* result of the last PurgeExpired / PurgeAll
    pol,           \* one evaluation of the refresh policy: its inputs and answer
    vconfig,       \* VoucherCallbackService.config (*VoucherConfig)
    hasExtraSvc,   \* VoucherCallbackService.oveExtraDataService != nil
    signerSession, \* the session state the VoucherSigningService holds
    inv,           \* the BeforeVoucherPersist invocation of each device
    dec            \* one PEM decoding: the decoder, its input and its answer

resolverVars == <<config, sessionState, dbFaults, did_cache, clock, call, active, purged>>
voucherVars  == <<vconfig, hasExtraSvc, signerSession, inv>>
vars == <<config, sessionState, dbFaults, did_cache, clock, call, active, purged,
          pol, vconfig, hasExtraSvc, signerSession, inv, dec>>

\* ------------------------------------------------------- key (de)coding
\* x509.MarshalPKIXPublicKey: DER bytes of an RSA / ECDSA public key.
MarshalPKIXPublicKey(key) ==
    IF key.type \in {"ecdsa", "rsa"}
    THEN [err |-> "", bytes |-> [der |-> "pkix", key |-> key]]
    ELSE [err |-> "x509: unsupported public key type", bytes |-> [der |-> "none"]]

\* deserializePublicKey: x509.ParsePKIXPublicKey on the stored bytes.
deserializePublicKey(keyBytes) ==
    IF keyBytes.der = "pkix"
    THEN [err |-> "", key |-> keyBytes.key]
    ELSE [err |-> "x509: failed to parse public key", key |-> NoKey]

\* parseECJWK: the curve is read from the JWK, the coordinates are not: the
\* key is generated from the random source (rnd).
parseECJWK(jwk, rnd) ==
    IF jwk.crv = "none" THEN [err |-> "missing or invalid crv in EC JWK", key |-> NoKey]
    ELSE IF jwk.crv \in {"P-256", "P-384"}
    THEN [err |-> "", key |-> [type |-> "ecdsa", curve |-> jwk.crv, mat |-> rnd]]
    ELSE [err |-> "unsupported EC curve", key |-> NoKey]

\* parseRSAJWK: generates a 2048-bit RSA key from the random source.
parseRSAJWK(jwk, rnd) ==
    [err |-> "", key |-> [type |-> "rsa", curve |-> "none", mat |-> rnd]]

\* parseJWK: dispatch on kty.
parseJWK(jwk, rnd) ==
    IF jwk.kty = "none" THEN [err |-> "missing or invalid kty in JWK", key |-> NoKey]
    ELSE IF jwk.kty = "EC" THEN parseECJWK(jwk, rnd)
    ELSE IF jwk.kty = "RSA" THEN parseRSAJWK(jwk, rnd)
    ELSE [err |-> "unsupported JWK key type", key |-> NoKey]

\* extractPublicKey: the first verification method decides.
extractPublicKey(doc, rnd) ==
    IF Len(doc.vms) = 0
    THEN [err |-> "no verification methods found in DID document", key |-> NoKey]
    ELSE LET vm == doc.vms[1] IN
         IF vm.fmt = "jwk" THEN parseJWK(vm.jwk, rnd)
         ELSE IF vm.fmt = "multibase"
         THEN [err |-> "multibase parsing not yet implemented", key |-> NoKey]
         ELSE IF vm.fmt = "base58"
         THEN [err |-> "base58 parsing not yet implemented", key |-> NoKey]
         ELSE [err |-> "no supported public key format found in verification method",
               key |-> NoKey]

\* The local directory examples/: file name -> voucherRecipientURL of the
\* file's fido-device-onboarding object ("" when the file has none).
ExamplesDir == [f \in {"did_owner.json", "did_no_fdo.json"} |->
                  IF f = "did_owner.json" THEN "https://example.com/vouchers/owner" ELSE ""]

\* extractDIDURL: only a document whose own id is did:file:<name> yields a
\* URL, read from examples/<name>; the fetched body's extension is not read.
extractDIDURL(doc) ==
    IF doc.idMethod # "file" THEN ""
    ELSE IF doc.idName = "" THEN ""
    ELSE IF doc.idName \notin DOMAIN ExamplesDir THEN ""
    ELSE ExamplesDir[doc.idName]

\* ------------------------------------------------ documents and the network
JWK(kty, crv) == [kty |-> kty, crv |-> crv, x |-> DocMat]
VM(fmt, jwk)  == [fmt |-> fmt, jwk |-> jwk]
Doc(idMethod, idName, vms, ext) ==
    [idMethod |-> idMethod, idName |-> idName, vms |-> vms, ext |-> ext]

\* Parsed identifier documents a server can return.  ext is the body's
\* fido-device-onboarding.voucherRecipientURL ("" when absent).
DocA == Doc("web", "a", <<VM("jwk", JWK("EC", "P-256"))>>, "https://vms.example/import")
DocFile == Doc("file", "did_owner.json", <<VM("jwk", JWK("EC", "P-256"))>>, "")
Docs == { DocA, DocFile,
          Doc("web", "a", <<>>, ""),
          Doc("web", "a", <<VM("jwk", JWK("EC", "P-521"))>>, ""),
          Doc("web", "a", <<VM("multibase", JWK("none", "none"))>>, "") }

\* What one HTTP GET can come to: httpClient.Do fails, on its own ("doerr",
\* also a timeout) or because the caller's context was cancelled ("cancel"), a
\* status other than 200, a body that cannot be read, a body that is no DID
\* document, or a parsed document.
CancelMsg == "failed to fetch DID document: context canceled"
NetFailKinds == {"doerr", "cancel", "status", "badjson"}
NetOutcomes  == [kind : NetFailKinds, doc : {DocA}] \cup [kind : {"body"}, doc : Docs]

\* fetchDIDWeb up to (not including) its store calls: the error message, or
\* the key, the URL and the entry to write.
fetchDIDWeb(didURI, now, outcome, rnd) ==
    LET fail(msg) == [err |-> msg, key |-> NoKey, url |-> "", entry |-> NoEntry] IN
    IF outcome.kind = "doerr" THEN fail("failed to fetch DID document")
    ELSE IF outcome.kind = "cancel" THEN fail(CancelMsg)
    ELSE IF outcome.kind = "status" THEN fail("HTTP status when fetching DID document")
    ELSE IF outcome.kind = "readerr" THEN fail("failed to read response body")
    ELSE IF outcome.kind = "badjson" THEN fail("failed to parse DID document")
    ELSE LET k == extractPublicKey(outcome.doc, rnd) IN
         IF k.err # "" THEN fail("failed to extract public key")
         ELSE LET didURL == extractDIDURL(outcome.doc)
                  m      == MarshalPKIXPublicKey(k.key) IN
              IF m.err # "" THEN fail("failed to serialize public key")
              ELSE [err |-> "", key |-> k.key, url |-> didURL,
                    entry |-> [did_uri              |-> didURI,
                               public_key           |-> m.bytes,
                               did_url              |-> didURL,
                               timestamp            |-> now,
                               last_refresh_attempt |-> now,
                               last_refresh_error   |-> "",
                               last_used            |-> now]]

\* ------------------------------------------------------- the session state
\* did_cache has did_uri as PRIMARY KEY and public_key, timestamp,
\* last_refresh_attempt, last_used NOT NULL (InitializeCache).
RowsFor(tbl, didURI) == {r \in tbl : r.did_uri = didURI}

\* state.query(ctx, "did_cache", columns, where did_uri = didURI, into...)
DbQuery(tbl, didURI) ==
    IF RowsFor(tbl, didURI) = {}
    THEN [err |-> "not found", entry |-> NoEntry]
    ELSE [err |-> "", entry |-> CHOOSE r \in RowsFor(tbl, didURI) : TRUE]

\* state.insertOrIgnore(ctx, "did_cache", kvs): INSERT OR IGNORE.  A row whose
\* did_uri is already there is left as it is, and that is no error.
DbInsertOrIgnore(tbl, kvs) ==
    IF RowsFor(tbl, kvs.did_uri) = {} THEN tbl \cup {kvs} ELSE tbl

\* A variant of insert-where that makes a row of its own when none matches,
\* filling the columns it was not given with their zero values.
DbInsertWhere_Upsert(tbl, kvs, didURI) ==
    IF RowsFor(tbl, didURI) # {}
    THEN { IF r.did_uri = didURI
           THEN [c \in Columns |-> IF c \in DOMAIN kvs THEN kvs[c] ELSE r[c]]
           ELSE r : r \in tbl }
    ELSE tbl \cup {[c \in Columns |->
                      IF c \in DOMAIN kvs THEN kvs[c]
                      ELSE IF c = "did_uri" THEN didURI
                      ELSE IF c \in {"timestamp", "last_refresh_attempt", "last_used"} THEN 0
                      ELSE ""]}

\* state.insert(ctx, "did_cache", kvs, where did_uri = didURI): the rows that
\* match take the kvs columns; with no such row the kvs are inserted, which
\* the NOT NULL columns allow for a whole row only.
DbInsertWhere(tbl, kvs, didURI) ==
    IF RowsFor(tbl, didURI) # {}
    THEN { IF r.did_uri = didURI
           THEN [c \in Columns |-> IF c \in DOMAIN kvs THEN kvs[c] ELSE r[c]]
           ELSE r : r \in tbl }
    ELSE IF DOMAIN kvs = Columns THEN tbl \cup {kvs} ELSE tbl

\* getFromCache.  dbok: the query itself did not fail.
getFromCache(ss, tbl, didURI, dbok) ==
    IF ss = "nil" THEN [err |-> "no session state available", entry |-> NoEntry]
    ELSE IF ss # "db"
    THEN [err |-> "session state does not support database queries", entry |-> NoEntry]
    ELSE IF ~dbok THEN [err |-> "query failed", entry |-> NoEntry]
    ELSE DbQuery(tbl, didURI)

\* updateCache: insertOrIgnore, and only when that returns an error the
\* insert with a where clause.  The table afterwards (the caller ignores the
\* error).  dbok1, dbok2: the two statements did not fail.
updateCache(ss, tbl, entry, dbok1, dbok2) ==
    IF ss # "db" THEN tbl
    ELSE IF dbok1 THEN DbInsertOrIgnore(tbl, entry)
    ELSE IF dbok2 THEN DbInsertWhere(tbl, entry, entry.did_uri)
    ELSE tbl

\* A variant of updateLastUsed that also restamps the entry as just resolved.
updateLastUsed_Restamp(ss, tbl, didURI, lastUsed, dbok) ==
    IF ss # "db" \/ ~dbok THEN tbl
    ELSE DbInsertWhere(tbl, [last_used |-> lastUsed, timestamp |-> lastUsed], didURI)

\* A variant of updateLastUsed that leaves the entry as it was.
updateLastUsed_Skip(ss, tbl, didURI, lastUsed, dbok) == tbl

\* updateLastUsed: the table afterwards.
updateLastUsed(ss, tbl, didURI, lastUsed, dbok) ==
    IF ss # "db" \/ ~dbok THEN tbl
    ELSE DbInsertWhere(tbl, [last_used |-> lastUsed], didURI)

\* A variant of updateCacheError that records nothing.
updateCacheError_NoRecord(ss, tbl, didURI, timestamp, errorMsg, dbok) == tbl

\* A variant of updateCacheError that drops the entry whose refresh failed.
updateCacheError_Evict(ss, tbl, didURI, timestamp, errorMsg, dbok) ==
    IF ss # "db" \/ ~dbok THEN tbl
    ELSE tbl \ RowsFor(tbl, didURI)

\* updateCacheError: the table afterwards.
updateCacheError(ss, tbl, didURI, timestamp, errorMsg, dbok) ==
    IF ss # "db" \/ ~dbok THEN tbl
    ELSE DbInsertWhere(tbl, [last_refresh_attempt |-> timestamp,
                             last_refresh_error   |-> errorMsg], didURI)

\* A variant of shouldRefresh that lets the failure backoff override MaxAge.
shouldRefresh_BackoffFirst(cached, now, cfg) ==
    IF now - cached.last_refresh_attempt < cfg.FailureBackoff THEN FALSE
    ELSE IF now - cached.timestamp > cfg.MaxAge THEN TRUE
    ELSE now - cached.timestamp >= cfg.RefreshInterval

\* A variant of shouldRefresh without the fresh window.
shouldRefresh_NoFreshWindow(cached, now, cfg) ==
    IF now - cached.timestamp > cfg.MaxAge THEN TRUE
    ELSE IF now - cached.last_refresh_attempt < cfg.FailureBackoff THEN FALSE
    ELSE TRUE

\* A variant of shouldRefresh without the MaxAge ceiling.
shouldRefresh_NoCeiling(cached, now, cfg) ==
    IF now - cached.timestamp < cfg.RefreshInterval THEN FALSE
    ELSE IF now - cached.last_refresh_attempt < cfg.FailureBackoff THEN FALSE
    ELSE TRUE

\* A variant of shouldRefresh without the failure backoff.
shouldRefresh_NoBackoff(cached, now, cfg) ==
    IF now - cached.timestamp > cfg.MaxAge THEN TRUE
    ELSE IF now - cached.timestamp < cfg.RefreshInterval THEN FALSE
    ELSE TRUE

\* A variant of shouldRefresh whose backoff counts from failed attempts only.
shouldRefresh_BackoffAfterFailure(cached, now, cfg) ==
    IF now - cached.timestamp > cfg.MaxAge THEN TRUE
    ELSE IF now - cached.timestamp < cfg.RefreshInterval THEN FALSE
    ELSE IF cached.last_refresh_error # ""
            /\ now - cached.last_refresh_attempt < cfg.FailureBackoff THEN FALSE
    ELSE TRUE

\* shouldRefresh
shouldRefresh(cached, now, cfg) ==
    IF now - cached.timestamp > cfg.MaxAge THEN TRUE
    ELSE IF now - cached.timestamp < cfg.RefreshInterval THEN FALSE
    ELSE IF now - cached.last_refresh_attempt < cfg.FailureBackoff THEN FALSE
    ELSE TRUE

\* ResolveDIDKey's dispatch (lines 58-72).  strings.Split(didURI, ":")[1]
\* indexes out of range when the URI holds no ':'.
HasPrefix(didURI, method) ==
    \/ method = "did:key:" /\ didURI = KeyURI
    \/ method = "did:web:" /\ didURI \in WebURIs
HasColon(didURI) == didURI # NoColonURI
\* A variant of the dispatch that sends did:key URIs down the cached path.
Dispatch_KeyCached(enabled, didURI) ==
    IF ~enabled THEN "disabled"
    ELSE IF HasPrefix(didURI, "did:key:") \/ HasPrefix(didURI, "did:web:") THEN "web"
    ELSE IF HasColon(didURI) THEN "unsupported"
    ELSE "panic"

\* A variant of the dispatch that looks at the method before the Enabled flag.
Dispatch_MethodFirst(enabled, didURI) ==
    IF HasPrefix(didURI, "did:key:") THEN "key"
    ELSE IF HasPrefix(didURI, "did:web:") THEN "web"
    ELSE IF ~enabled THEN "disabled"
    ELSE IF HasColon(didURI) THEN "unsupported"
    ELSE "panic"

Dispatch(enabled, didURI) ==
    IF ~enabled THEN "disabled"
    ELSE IF HasPrefix(didURI, "did:key:") THEN "key"
    ELSE IF HasPrefix(didURI, "did:web:") THEN "web"
    ELSE IF HasColon(didURI) THEN "unsupported"
    ELSE "panic"

\* extractPublicKeyFromDIDKey: not implemented, always an error.
extractPublicKeyFromDIDKey(didKey) ==
    [err |-> "did:key resolution not yet implemented", key |-> NoKey]

\* resolveDIDKeyDirect
resolveDIDKeyDirect(didURI) ==
    LET k == extractPublicKeyFromDIDKey(didURI) IN
    IF k.err # ""
    THEN [status |-> "err", key |-> NoKey, url |-> "",
          err |-> "failed to extract public key from did:key"]
    ELSE [status |-> "ok", key |-> k.key, url |-> "", err |-> ""]

\* ------------------------------------------------------------ the resolver
Procs == {"p1", "p2"}

NoRet   == [status |-> "none", key |-> NoKey, url |-> "", err |-> ""]
RetOk(key, url) == [status |-> "ok", key |-> key, url |-> url, err |-> ""]
RetErr(msg)     == [status |-> "err", key |-> NoKey, url |-> "", err |-> msg]

\* One ResolveDIDKey invocation.  pc: idle, get (before getFromCache), touch
\* (entry found, before updateLastUsed), http (request in flight), done.
\* now, cached, fnow are the code's locals (fnow: refreshFromNetwork's now).
\* History kept for the properties: hit (getFromCache returned an entry),
\* nfetch (calls of refreshFromNetwork), fres (the fetch's error message,
\* "ok" after a successful one), doc (the document the fetch parsed), fault
\* (a store statement failed).
NoDoc == [none |-> TRUE]
IdleCall == [pc |-> "idle", uri |-> "", now |-> 0, cached |-> NoEntry, fnow |-> 0,
             hit |-> FALSE, nfetch |-> 0, fres |-> "", doc |-> NoDoc, fault |-> FALSE,
             ret |-> NoRet]

Quiet == \A p \in active : call[p].pc \in {"idle", "done"}

\* Whether a store statement can fail in this run.
DbOk == IF dbFaults THEN BOOLEAN ELSE {TRUE}

\* The locals of a finished invocation are gone.
Finish(c, r) == [c EXCEPT !.pc = "done", !.ret = r, !.cached = NoEntry, !.now = 0]

\* lines 109-114: the cached entry is returned
ReturnCached(cached) ==
    LET d == deserializePublicKey(cached.public_key) IN
    IF d.err # "" THEN RetErr("failed to deserialize cached public key")
    ELSE RetOk(d.key, cached.did_url)

\* ResolveDIDKey, lines 57-73, and line 90 of resolveDIDWebCached
Call(p, didURI) ==
    /\ p \in active
    /\ call[p].pc \in {"idle", "done"}
    /\ LET d == Dispatch(config.Enabled, didURI)
           c == [IdleCall EXCEPT !.uri = didURI] IN
       call' = [call EXCEPT ![p] =
          IF d = "disabled" THEN Finish(c, RetErr("DID cache is disabled"))
          ELSE IF d = "key" THEN Finish(c, resolveDIDKeyDirect(didURI))
          ELSE IF d = "web" THEN [c EXCEPT !.pc = "get", !.now = clock]
          ELSE IF d = "unsupported" THEN Finish(c, RetErr("unsupported DID method"))
          ELSE Finish(c, [NoRet EXCEPT !.status = "panic"])]
    /\ UNCHANGED <<config, sessionState, dbFaults, did_cache, clock, active, purged, pol, dec, voucherVars>>

\* A variant of the lookup in which a failing read fails the call.
Lookup_ReadErrorFails(p) ==
    /\ call[p].pc = "get"
    /\ \E dbok \in DbOk :
         LET c == call[p]
             g == getFromCache(sessionState, did_cache, c.uri, dbok)
             h == [c EXCEPT !.fault = (sessionState = "db" /\ ~dbok)] IN
         call' = [call EXCEPT ![p] =
            IF g.err = "" /\ g.entry # NoEntry
            THEN [h EXCEPT !.pc = "touch", !.cached = g.entry, !.hit = TRUE]
            ELSE IF g.err \notin {"", "not found"} THEN Finish(h, RetErr(g.err))
            ELSE [h EXCEPT !.pc = "http", !.fnow = clock, !.nfetch = 1]]
    /\ UNCHANGED <<config, sessionState, dbFaults, did_cache, clock, active, purged, pol, dec, voucherVars>>

\* resolveDIDWebCached, lines 93-94 and 117-118 (with line 152)
Lookup(p) ==
    /\ call[p].pc = "get"
    /\ \E dbok \in DbOk :
         LET c == call[p]
             g == getFromCache(sessionState, did_cache, c.uri, dbok)
             h == [c EXCEPT !.fault = (sessionState = "db" /\ ~dbok)] IN
         call' = [call EXCEPT ![p] =
            IF g.err = "" /\ g.entry # NoEntry
            THEN [h EXCEPT !.pc = "touch", !.cached = g.entry, !.hit = TRUE]
            ELSE [h EXCEPT !.pc = "http", !.fnow = clock, !.nfetch = 1]]
    /\ UNCHANGED <<config, sessionState, dbFaults, did_cache, clock, active, purged, pol, dec, voucherVars>>

\* resolveDIDWebCached, lines 95-99 and 109-114 (with line 152)
Touch(p) ==
    /\ call[p].pc = "touch"
    /\ \E dbok \in DbOk :
         LET c == call[p]
             h == [c EXCEPT !.fault = (c.fault \/ ~dbok)] IN
         /\ did_cache' = updateLastUsed(sessionState, did_cache, c.uri, c.now, dbok)
         /\ call' = [call EXCEPT ![p] =
              IF shouldRefresh(c.cached, c.now, config)
              THEN [h EXCEPT !.pc = "http", !.fnow = clock, !.nfetch = 1]
              ELSE Finish(h, ReturnCached(c.cached))]
    /\ UNCHANGED <<config, sessionState, dbFaults, clock, active, purged, pol, dec, voucherVars>>

\* fetchDIDWeb from the response on, and lines 102-118 of resolveDIDWebCached.
\* After a cancellation updateCacheError runs with the cancelled context, which
\* the store may honour (the statement fails) or not.
Fetched(p) ==
    /\ call[p].pc = "http"
    /\ \E outcome \in NetOutcomes, rnd \in GenMat, dbok1 \in BOOLEAN, dbok2 \in DbOk :
         /\ (outcome.kind # "cancel" => dbok1 \in DbOk)
         /\ LET c == call[p]
                f == fetchDIDWeb(c.uri, c.fnow, outcome, rnd)
                h == [c EXCEPT !.fres = IF f.err = "" THEN "ok" ELSE f.err,
                               !.doc = IF outcome.kind = "body" THEN outcome.doc ELSE NoDoc,
                               !.fault = (c.fault \/ (sessionState = "db" /\ ~dbok1))] IN
            /\ (dbok1 \/ f.err # "" => dbok2)
            /\ did_cache' =
                 IF f.err = ""
                 THEN updateCache(sessionState, did_cache, f.entry, dbok1, dbok2)
                 ELSE updateCacheError(sessionState, did_cache, c.uri, c.fnow, f.err, dbok1)
            /\ call' = [call EXCEPT ![p] =
                 IF f.err = "" THEN Finish(h, RetOk(f.key, f.url))
                 ELSE IF c.cached # NoEntry THEN Finish(h, ReturnCached(c.cached))
                 ELSE Finish(h, RetErr(f.err))]
    /\ UNCHANGED <<config, sessionState, dbFaults, clock, active, purged, pol, dec, voucherVars>>

\* A variant of PurgeExpired that goes by the entry's age, not its last use.
PurgeExpired_ByAge ==
    /\ Quiet
    /\ \E dbok \in DbOk :
         LET cutoff == clock - config.PurgeUnused
             gone   == {r \in did_cache : r.timestamp < cutoff} IN
         IF sessionState = "db" /\ dbok
         THEN /\ did_cache' = did_cache \ gone
              /\ purged' = [op |-> "expired", n |-> Cardinality(gone), err |-> ""]
         ELSE /\ did_cache' = did_cache
              /\ purged' = [op |-> "expired", n |-> 0, err |-> "purge failed"]
    /\ UNCHANGED <<config, sessionState, dbFaults, clock, call, active, pol, dec, voucherVars>>

\* PurgeExpired
PurgeExpired ==
    /\ Quiet
    /\ \E dbok \in DbOk :
         LET cutoff == clock - config.PurgeUnused
             gone   == {r \in did_cache : r.last_used < cutoff} IN
         IF sessionState = "db" /\ dbok
         THEN /\ did_cache' = did_cache \ gone
              /\ purged' = [op |-> "expired", n |-> Cardinality(gone), err |-> ""]
         ELSE /\ did_cache' = did_cache
              /\ purged' = [op |-> "expired", n |-> 0, err |-> "purge failed"]
    /\ UNCHANGED <<config, sessionState, dbFaults, clock, call, active, pol, dec, voucherVars>>

\* A variant of PurgeAll that reports the entries as removed and keeps them.
PurgeAll_KeepsRows ==
    /\ Quiet
    /\ \E dbok \in DbOk :
         IF sessionState = "db" /\ dbok
         THEN /\ did_cache' = did_cache
              /\ purged' = [op |-> "all", n |-> Cardinality(did_cache), err |-> ""]
         ELSE /\ did_cache' = did_cache
              /\ purged' = [op |-> "all", n |-> 0, err |-> "purge failed"]
    /\ UNCHANGED <<config, sessionState, dbFaults, clock, call, active, pol, dec, voucherVars>>

\* PurgeAll
PurgeAll ==
    /\ Quiet
    /\ \E dbok \in DbOk :
         IF sessionState = "db" /\ dbok
         THEN /\ did_cache' = {}
              /\ purged' = [op |-> "all", n |-> Cardinality(did_cache), err |-> ""]
         ELSE /\ did_cache' = did_cache
              /\ purged' = [op |-> "all", n |-> 0, err |-> "purge failed"]
    /\ UNCHANGED <<config, sessionState, dbFaults, clock, call, active, pol, dec, voucherVars>>

\* time passes
Tick ==
    /\ clock < MaxTime
    /\ clock' = clock + 1
    /\ UNCHANGED <<config, sessionState, dbFaults, did_cache, call, active, purged, pol, dec, voucherVars>>

\* The resolver configurations explored, in clock ticks, ordered as the
\* shipped durations are (RefreshInterval < MaxAge < PurgeUnused): a backoff
\* shorter than the refresh interval, one longer than it, and the resolver
\* disabled.
CfgDefault == [Enabled |-> TRUE,  RefreshInterval |-> 2, MaxAge |-> 4,
               FailureBackoff |-> 1, PurgeUnused |-> 5]
CfgBackoff == [CfgDefault EXCEPT !.FailureBackoff = 3]
CfgOff     == [CfgDefault EXCEPT !.Enabled = FALSE]

\* <<config, sessionState, dbFaults>> of the runs explored
Setups == { <<CfgDefault, "db", FALSE>>, <<CfgBackoff, "db", FALSE>>,
            <<CfgDefault, "nil", FALSE>>, <<CfgOff, "db", FALSE>> }

\* -------------------------------------------------- the refresh policy alone
Durations == 0..MaxDur
PolicyConfigs == [Enabled : {TRUE}, RefreshInterval : Durations, MaxAge : Durations,
                  FailureBackoff : Durations, PurgeUnused : {MaxDur}]
NoPol == [timestamp |-> 0, last_refresh_attempt |-> 0, now |-> 0, done |-> FALSE, out |-> FALSE]

\* shouldRefresh applied to the entry and the time drawn in InitPolicy
EvalPolicy ==
    /\ ~pol.done
    /\ pol' = [pol EXCEPT !.done = TRUE, !.out = shouldRefresh(pol, pol.now, config)]
    /\ UNCHANGED <<resolverVars, voucherVars, dec>>

\* ------------------------------------------------------ PEM and owner keys
\* A PEM text: the type of its first block ("none": no block at all), what its
\* bytes parse as (pkix, cert, pkcs1 or junk) and the key they hold.
Pem(block, body, key) == [block |-> block, body |-> body, key |-> key]
EmptyStr   == Pem("", "", NoKey)               \* the empty string
KeyEC      == [type |-> "ecdsa", curve |-> "P-256", mat |-> "ownerEC"]
KeyRSA     == [type |-> "rsa", curve |-> "none", mat |-> "ownerRSA"]
PemPKIX    == Pem("PUBLIC KEY", "pkix", KeyEC)
PemCert    == Pem("CERTIFICATE", "cert", KeyRSA)
PemPKCS1   == Pem("RSA PUBLIC KEY", "pkcs1", KeyRSA)
PemOddType == Pem("EC PUBLIC KEY", "pkix", KeyEC)
PemJunk    == Pem("PUBLIC KEY", "junk", NoKey)
PemNoBlock == Pem("none", "none", NoKey)

\* parsePKIXPublicKey
parsePKIXPublicKey(data) ==
    IF data.body = "pkix" THEN [err |-> "", key |-> data.key]
    ELSE [err |-> "failed to parse PKIX public key", key |-> NoKey]

\* A variant of parseCertificatePublicKey that hands back the certificate
\* rather than the key inside it.
parseCertificatePublicKey_WholeCert(data) ==
    IF data.body = "cert" THEN [err |-> "", key |-> [type |-> "x509.Certificate"]]
    ELSE [err |-> "failed to parse certificate", key |-> NoKey]

\* parseCertificatePublicKey
parseCertificatePublicKey(data) ==
    IF data.body = "cert" THEN [err |-> "", key |-> data.key]
    ELSE [err |-> "failed to parse certificate", key |-> NoKey]

\* parsePublicKeyFromPEM
parsePublicKeyFromPEM(data) ==
    IF data.block \in {"", "none"} THEN [err |-> "failed to decode PEM block", key |-> NoKey]
    ELSE IF data.block = "PUBLIC KEY" THEN parsePKIXPublicKey(data)
    ELSE IF data.block = "CERTIFICATE" THEN parseCertificatePublicKey(data)
    ELSE [err |-> "unsupported PEM block type", key |-> NoKey]

\* parseStaticPublicKey: the block's type is not looked at
parseStaticPublicKey(pemKey) ==
    IF pemKey.block \in {"", "none"} THEN [err |-> "failed to decode PEM block", key |-> NoKey]
    ELSE IF pemKey.body = "pkix" THEN [err |-> "", key |-> pemKey.key]
    ELSE IF pemKey.body = "cert" THEN [err |-> "", key |-> pemKey.key]
    ELSE IF pemKey.body = "pkcs1" THEN [err |-> "", key |-> pemKey.key]
    ELSE [err |-> "unsupported public key format", key |-> NoKey]

\* The PEM texts a decoder can be given: the empty string, text without a PEM
\* block, and blocks of five types holding a PKIX key, a certificate, a PKCS#1
\* key or bytes that are none of these.
PemBlockTypes == {"PUBLIC KEY", "CERTIFICATE", "RSA PUBLIC KEY", "EC PUBLIC KEY", "PRIVATE KEY"}
PemInputs ==
    {EmptyStr, PemNoBlock}
    \cup { Pem(b, body, k) : b \in PemBlockTypes, body \in {"pkix", "cert"}, k \in {KeyEC, KeyRSA} }
    \cup { Pem(b, "pkcs1", KeyRSA) : b \in PemBlockTypes }
    \cup { Pem(b, "junk", NoKey) : b \in PemBlockTypes }

NoDec == [who |-> "none", input |-> EmptyStr, done |-> FALSE, err |-> "", key |-> NoKey]

\* parsePublicKeyFromPEM applied to the input drawn for the authority's decoder
DecodeAuthority ==
    /\ dec.who = "authority" /\ ~dec.done
    /\ LET k == parsePublicKeyFromPEM(dec.input) IN
       dec' = [dec EXCEPT !.done = TRUE, !.err = k.err, !.key = k.key]
    /\ UNCHANGED <<resolverVars, pol, voucherVars>>

\* parseStaticPublicKey applied to the input drawn for the static-key decoder
DecodeStatic ==
    /\ dec.who = "static" /\ ~dec.done
    /\ LET k == parseStaticPublicKey(dec.input) IN
       dec' = [dec EXCEPT !.done = TRUE, !.err = k.err, !.key = k.key]
    /\ UNCHANGED <<resolverVars, pol, voucherVars>>

\* ResolveDIDKey on a resolver built with a nil session state: getFromCache,
\* updateCache and updateCacheError return at their first check, so a did:web
\* URI always goes to the network and nothing is stored.
ResolveUncached(cfg, didURI, outcome, rnd) ==
    LET d == Dispatch(cfg.Enabled, didURI) IN
    IF d = "disabled" THEN RetErr("DID cache is disabled")
    ELSE IF d = "key" THEN resolveDIDKeyDirect(didURI)
    ELSE IF d = "web"
    THEN LET f == fetchDIDWeb(didURI, 0, outcome, rnd) IN
         IF f.err = "" THEN RetOk(f.key, f.url) ELSE RetErr(f.err)
    ELSE IF d = "unsupported" THEN RetErr("unsupported DID method")
    ELSE [NoRet EXCEPT !.status = "panic"]

\* OwnerKeyResult
OwnerKeyResult(key, url) == [type |-> "OwnerKeyResult", PublicKey |-> key, DIDURL |-> url]
NoResult == [type |-> "nil"]

\* The configuration handleDIDResponse gives its resolver: &DIDCache{Enabled: false}
DIDResponseCache == [CfgDefault EXCEPT !.Enabled = FALSE]

\* handleDIDResponse
handleDIDResponse(didURI, outcome, rnd) ==
    LET r == ResolveUncached(DIDResponseCache, didURI, outcome, rnd) IN
    IF r.status # "ok" THEN [err |-> "failed to resolve DID", cause |-> r.err, res |-> NoResult]
    ELSE [err |-> "", cause |-> "", res |-> OwnerKeyResult(r.key, r.url)]

\* What the external authority's command can come to: it fails to run, it
\* prints something that is no JSON object, or it prints the envelope.
Responses ==
    [exec : {"fail"}, json : {FALSE}, error : {""}, owner_did : {""}, owner_key_pem : {EmptyStr}]
    \cup [exec : {"ok"}, json : {FALSE}, error : {""}, owner_did : {""}, owner_key_pem : {EmptyStr}]
    \cup [exec : {"ok"}, json : {TRUE}, error : {"", "device not allowed"},
          owner_did : {"", WebURI},
          owner_key_pem : {EmptyStr, PemPKIX, PemCert, PemOddType}]

\* A variant of GetOwnerKey that looks at the identifier URI before the
\* error field.
GetOwnerKey_DIDFirst(serial, model, resp, outcome, rnd) ==
    LET variables == [serialno |-> serial, model |-> model, guid |-> ""]
        out(err, res, ran) == [err |-> err, res |-> res, ran |-> ran, vars |-> variables] IN
    IF resp.exec # "ok"
    THEN out("failed to execute owner key command", NoResult, <<"Execute">>)
    ELSE IF ~resp.json
    THEN out("failed to parse owner key response", NoResult, <<"Execute">>)
    ELSE IF resp.owner_did # ""
    THEN LET h == handleDIDResponse(resp.owner_did, outcome, rnd) IN
         out(h.err, h.res, <<"Execute", "handleDIDResponse">>)
    ELSE IF resp.error # ""
    THEN out("owner key service error", NoResult, <<"Execute">>)
    ELSE IF resp.owner_key_pem = EmptyStr
    THEN out("no owner key returned", NoResult, <<"Execute">>)
    ELSE LET k == parsePublicKeyFromPEM(resp.owner_key_pem) IN
         IF k.err # ""
         THEN out("failed to parse PEM key", NoResult, <<"Execute", "parsePublicKeyFromPEM">>)
         ELSE out("", OwnerKeyResult(k.key, ""), <<"Execute", "parsePublicKeyFromPEM">>)

\* A variant of GetOwnerKey that runs the command a second time after a
\* failure.
GetOwnerKey_Retry(serial, model, resp, outcome, rnd) ==
    LET variables == [serialno |-> serial, model |-> model, guid |-> ""]
        out(err, res, ran) == [err |-> err, res |-> res, ran |-> ran, vars |-> variables] IN
    IF resp.exec # "ok"
    THEN out("failed to execute owner key command", NoResult, <<"Execute", "Execute">>)
    ELSE IF ~resp.json
    THEN out("failed to parse owner key response", NoResult, <<"Execute">>)
    ELSE IF resp.error # ""
    THEN out("owner key service error", NoResult, <<"Execute">>)
    ELSE IF resp.owner_did # ""
    THEN LET h == handleDIDResponse(resp.owner_did, outcome, rnd) IN
         out(h.err, h.res, <<"Execute", "handleDIDResponse">>)
    ELSE IF resp.owner_key_pem = EmptyStr
    THEN out("no owner key returned", NoResult, <<"Execute">>)
    ELSE LET k == parsePublicKeyFromPEM(resp.owner_key_pem) IN
         IF k.err # ""
         THEN out("failed to parse PEM key", NoResult, <<"Execute", "parsePublicKeyFromPEM">>)
         ELSE out("", OwnerKeyResult(k.key, ""), <<"Execute", "parsePublicKeyFromPEM">>)

\* GetOwnerKey.  ran lists what it called, vars what it handed the executor.
GetOwnerKey(serial, model, resp, outcome, rnd) ==
    LET variables == [serialno |-> serial, model |-> model, guid |-> ""]
        out(err, res, ran) == [err |-> err, res |-> res, ran |-> ran, vars |-> variables] IN
    IF resp.exec # "ok"
    THEN out("failed to execute owner key command", NoResult, <<"Execute">>)
    ELSE IF ~resp.json
    THEN out("failed to parse owner key response", NoResult, <<"Execute">>)
    ELSE IF resp.error # ""
    THEN out("owner key service error", NoResult, <<"Execute">>)
    ELSE IF resp.owner_did # ""
    THEN LET h == handleDIDResponse(resp.owner_did, outcome, rnd) IN
         out(h.err, h.res, <<"Execute", "handleDIDResponse">>)
    ELSE IF resp.owner_key_pem = EmptyStr
    THEN out("no owner key returned", NoResult, <<"Execute">>)
    ELSE LET k == parsePublicKeyFromPEM(resp.owner_key_pem) IN
         IF k.err # ""
         THEN out("failed to parse PEM key", NoResult, <<"Execute", "parsePublicKeyFromPEM">>)
         ELSE out("", OwnerKeyResult(k.key, ""), <<"Execute", "parsePublicKeyFromPEM">>)

\* --------------------------------------------------------- the orchestrator
Devs == {"d1", "d2"}

VoucherParked ==
    /\ vconfig = [none |-> TRUE] /\ hasExtraSvc = FALSE
    /\ signerSession = "unset" /\ inv = <<>>

\* The ambient session state handed to BeforeVoucherPersist for device d:
\* nil, a value without a DeviceSelfInfo method ("plain"), or one whose
\* DeviceSelfInfo returns an error ("err"), (nil, nil) ("nilrec") or a record.
Session(d, kind, serial, model) == [id |-> d, kind |-> kind, serial |-> serial, model |-> model]
SessionsOf(d) ==
    { Session(d, k, "", "") : k \in {"nil", "plain", "err", "nilrec"} }
    \cup { Session(d, "rec", "SN-1", "model-1"), Session(d, "rec", "", "") }

\* The voucher of device d as the engine hands it over: GUID, the header's
\* DeviceInfo, the owner entries appended so far and who produced it.
VoucherOf(d, deviceInfo) ==
    [guid |-> d, deviceInfo |-> deviceInfo, entries |-> <<>>, by |-> "engine"]
Hex(guid) == <<"hex", guid>>

\* getDeviceInfo
getDeviceInfo(session, ov) ==
    LET got    == session.kind = "rec"
        serial == IF got THEN session.serial ELSE ""
        model  == IF got THEN session.model ELSE "" IN
    [serial |-> IF serial = "" THEN Hex(ov.guid) ELSE <<"str", serial>>,
     model  |-> IF model = "" THEN ov.deviceInfo ELSE model,
     guid   |-> Hex(ov.guid)]

\* BeforeVoucherPersist lines 55-88: the serial and model used from here on;
\* line 70 dereferences the record DeviceSelfInfo returned with a nil error.
DeviceIdentity(session, ov) ==
    LET first == getDeviceInfo(session, ov)
        dsi   == session.kind \in {"err", "nilrec", "rec"}
        noerr == session.kind \in {"nilrec", "rec"}
        serial == IF dsi /\ noerr THEN <<"str", session.serial>> ELSE first.serial
        model  == IF dsi /\ noerr THEN session.model ELSE first.model IN
    IF dsi /\ session.kind = "nilrec"
    THEN [panic |-> TRUE, serial |-> first.serial, model |-> first.model, guid |-> Hex(ov.guid)]
    ELSE [panic |-> FALSE,
          serial |-> IF serial = <<"str", "">> THEN Hex(ov.guid) ELSE serial,
          model  |-> IF model = "" THEN ov.deviceInfo ELSE model,
          guid   |-> Hex(ov.guid)]

\* The VoucherSigningService's answer to SignVoucher when it succeeds.
SignedVoucher(ov, nextOwner) ==
    [ov EXCEPT !.by = "SignVoucher",
               !.entries = IF nextOwner = NoKey THEN @ ELSE Append(@, nextOwner)]

\* fdo.ExtendVoucher's answer when it succeeds: one more owner entry.
ExtendedVoucher(ov, key) == [ov EXCEPT !.by = "ExtendVoucher", !.entries = Append(@, key)]

\* One BeforeVoucherPersist invocation.  pc: idle, owner, sign, signcall,
\* upload, disk, done.  log lists the collaborator calls made, in order, each
\* with its arguments and whether it succeeded;
\* resp, net and oks keep the authority's response, the network outcome and
\* GetOwnerKey's answer for the properties.
NoOks == [err |-> "", res |-> NoResult, ran |-> <<>>, vars |-> [none |-> TRUE]]
NoOut == [status |-> "none", persist |-> FALSE, err |-> ""]
IdleInv == [pc |-> "idle", session |-> Session("", "nil", "", ""),
            ov |-> VoucherOf("", ""), ov0 |-> VoucherOf("", ""),
            serial |-> <<"str", "">>, model |-> "", guid |-> Hex(""),
            nextOwner |-> NoKey, extraData |-> "nil",
            resp |-> [none |-> TRUE], net |-> [none |-> TRUE], oks |-> NoOks,
            log |-> <<>>, ret |-> NoOut]

Fatal(i, msg) == [i EXCEPT !.pc = "done", !.ret = [status |-> "err", persist |-> FALSE, err |-> msg]]
Logged(i, op, arg) == [i EXCEPT !.log = Append(@, [op |-> op, arg |-> arg])]

\* BeforeVoucherPersist, lines 53-92
Begin(d, session, ov) ==
    /\ d \in DOMAIN inv
    /\ inv[d].pc = "idle"
    /\ LET id == DeviceIdentity(session, ov)
           i  == [IdleInv EXCEPT !.session = session, !.ov = ov, !.ov0 = ov,
                                 !.serial = id.serial, !.model = id.model, !.guid = id.guid] IN
       inv' = [inv EXCEPT ![d] =
                 IF id.panic
                 THEN [i EXCEPT !.pc = "done", !.ret = [NoOut EXCEPT !.status = "panic"]]
                 ELSE [i EXCEPT !.pc = "owner"]]
    /\ UNCHANGED <<resolverVars, pol, dec, vconfig, hasExtraSvc, signerSession>>

\* A variant of the owner step in which a configuration that names no key
\* (an empty static key, a mode that is neither static nor dynamic) is fatal.
Owner_NoKeyFatal(d) ==
    /\ d \in DOMAIN inv
    /\ inv[d].pc = "owner"
    /\ LET i == inv[d] m == vconfig.OwnerSignover IN
       IF m.Mode = "static"
       THEN inv' = [inv EXCEPT ![d] =
               IF m.StaticPublicKey # EmptyStr
               THEN LET k == parseStaticPublicKey(m.StaticPublicKey) IN
                    IF k.err # "" THEN Fatal(i, "failed to parse static public key")
                    ELSE [i EXCEPT !.pc = "sign", !.nextOwner = k.key]
               ELSE Fatal(i, "no static public key configured")]
       ELSE IF m.Mode = "dynamic"
       THEN IF m.ExternalCommand # ""
            THEN \E resp \in Responses, outcome \in NetOutcomes, rnd \in GenMat :
                   LET o == GetOwnerKey(i.serial, i.model, resp, outcome, rnd)
                       j == [Logged(i, "GetOwnerKey", [serial |-> i.serial, model |-> i.model, ok |-> o.err = ""])
                               EXCEPT !.resp = resp, !.net = outcome, !.oks = o] IN
                   inv' = [inv EXCEPT ![d] =
                             IF o.err # "" THEN Fatal(j, "failed to get dynamic owner key")
                             ELSE [j EXCEPT !.pc = "sign", !.nextOwner = o.res]]
            ELSE inv' = [inv EXCEPT ![d] =
                           Fatal(i, "dynamic mode enabled but no external command configured")]
       ELSE inv' = [inv EXCEPT ![d] = Fatal(i, "unsupported owner signover mode")]
    /\ UNCHANGED <<resolverVars, pol, dec, vconfig, hasExtraSvc, signerSession>>

\* A variant of the owner step that, in dynamic mode with no external command,
\* goes on without a key.
Owner_NoCommandSkips(d) ==
    /\ d \in DOMAIN inv
    /\ inv[d].pc = "owner"
    /\ LET i == inv[d] m == vconfig.OwnerSignover IN
       IF m.Mode = "static"
       THEN inv' = [inv EXCEPT ![d] =
               IF m.StaticPublicKey # EmptyStr
               THEN LET k == parseStaticPublicKey(m.StaticPublicKey) IN
                    IF k.err # "" THEN Fatal(i, "failed to parse static public key")
                    ELSE [i EXCEPT !.pc = "sign", !.nextOwner = k.key]
               ELSE [i EXCEPT !.pc = "sign"]]
       ELSE IF m.Mode = "dynamic"
       THEN IF m.ExternalCommand # ""
            THEN \E resp \in Responses, outcome \in NetOutcomes, rnd \in GenMat :
                   LET o == GetOwnerKey(i.serial, i.model, resp, outcome, rnd)
                       j == [Logged(i, "GetOwnerKey", [serial |-> i.serial, model |-> i.model, ok |-> o.err = ""])
                               EXCEPT !.resp = resp, !.net = outcome, !.oks = o] IN
                   inv' = [inv EXCEPT ![d] =
                             IF o.err # "" THEN Fatal(j, "failed to get dynamic owner key")
                             ELSE [j EXCEPT !.pc = "sign", !.nextOwner = o.res]]
            ELSE inv' = [inv EXCEPT ![d] = [i EXCEPT !.pc = "sign"]]
       ELSE inv' = [inv EXCEPT ![d] = [i EXCEPT !.pc = "sign"]]
    /\ UNCHANGED <<resolverVars, pol, dec, vconfig, hasExtraSvc, signerSession>>

\* lines 94-128: the owner signover key
Owner(d) ==
    /\ d \in DOMAIN inv
    /\ inv[d].pc = "owner"
    /\ LET i == inv[d] m == vconfig.OwnerSignover IN
       IF m.Mode = "static"
       THEN inv' = [inv EXCEPT ![d] =
               IF m.StaticPublicKey # EmptyStr
               THEN LET k == parseStaticPublicKey(m.StaticPublicKey) IN
                    IF k.err # "" THEN Fatal(i, "failed to parse static public key")
                    ELSE [i EXCEPT !.pc = "sign", !.nextOwner = k.key]
               ELSE [i EXCEPT !.pc = "sign"]]
       ELSE IF m.Mode = "dynamic"
       THEN IF m.ExternalCommand # ""
            THEN \E resp \in Responses, outcome \in NetOutcomes, rnd \in GenMat :
                   LET o == GetOwnerKey(i.serial, i.model, resp, outcome, rnd)
                       j == [Logged(i, "GetOwnerKey", [serial |-> i.serial, model |-> i.model, ok |-> o.err = ""])
                               EXCEPT !.resp = resp, !.net = outcome, !.oks = o] IN
                   inv' = [inv EXCEPT ![d] =
                             IF o.err # "" THEN Fatal(j, "failed to get dynamic owner key")
                             ELSE [j EXCEPT !.pc = "sign", !.nextOwner = o.res]]
            ELSE inv' = [inv EXCEPT ![d] =
                           Fatal(i, "dynamic mode enabled but no external command configured")]
       ELSE inv' = [inv EXCEPT ![d] = [i EXCEPT !.pc = "sign"]]
    /\ UNCHANGED <<resolverVars, pol, dec, vconfig, hasExtraSvc, signerSession>>

\* A variant of the preparation step in which a failing extra-data source ends
\* the invocation.
Prepare_ExtraFatal(d) ==
    /\ d \in DOMAIN inv
    /\ inv[d].pc = "sign"
    /\ LET i == inv[d] IN
       IF vconfig.VoucherSigning.Mode # ""
       THEN /\ signerSession' = i.session.id
            /\ \E ok \in BOOLEAN :
                 /\ (~hasExtraSvc => ok)
                 /\ inv' = [inv EXCEPT ![d] =
                      IF hasExtraSvc
                      THEN LET j == Logged(i, "GetOVEExtraData", [serial |-> i.serial, model |-> i.model, ok |-> ok]) IN
                           IF ok THEN [j EXCEPT !.pc = "signcall", !.extraData = "extra"]
                           ELSE Fatal(j, "failed to get extra data")
                      ELSE [i EXCEPT !.pc = "signcall"]]
       ELSE /\ signerSession' = signerSession
            /\ \E ok \in BOOLEAN :
                 /\ (i.nextOwner = NoKey \/ i.nextOwner.type \notin {"rsa", "ecdsa", "certchain"} => ok)
                 /\ inv' = [inv EXCEPT ![d] =
                      IF i.nextOwner = NoKey THEN [i EXCEPT !.pc = "upload"]
                      ELSE IF i.nextOwner.type \in {"rsa", "ecdsa", "certchain"}
                      THEN LET j == Logged(i, "ExtendVoucher", [owner |-> i.nextOwner, ok |-> ok]) IN
                           IF ok THEN [j EXCEPT !.pc = "upload",
                                                !.ov = ExtendedVoucher(i.ov, i.nextOwner)]
                           ELSE Fatal(j, "failed to extend voucher to owner")
                      ELSE Fatal(i, "unsupported owner key type")]
    /\ UNCHANGED <<resolverVars, pol, dec, vconfig, hasExtraSvc>>

\* lines 130-145 (signing configured: extra data, SetSessionState) and lines
\* 154-184 (no signing configured: direct extension by key type)
Prepare(d) ==
    /\ d \in DOMAIN inv
    /\ inv[d].pc = "sign"
    /\ LET i == inv[d] IN
       IF vconfig.VoucherSigning.Mode # ""
       THEN /\ signerSession' = i.session.id
            /\ \E ok \in BOOLEAN :
                 /\ (~hasExtraSvc => ok)
                 /\ inv' = [inv EXCEPT ![d] =
                      IF hasExtraSvc
                      THEN [Logged(i, "GetOVEExtraData", [serial |-> i.serial, model |-> i.model, ok |-> ok])
                              EXCEPT !.pc = "signcall",
                                     !.extraData = IF ok THEN "extra" ELSE "nil"]
                      ELSE [i EXCEPT !.pc = "signcall"]]
       ELSE /\ signerSession' = signerSession
            /\ \E ok \in BOOLEAN :
                 /\ (i.nextOwner = NoKey \/ i.nextOwner.type \notin {"rsa", "ecdsa", "certchain"} => ok)
                 /\ inv' = [inv EXCEPT ![d] =
                      IF i.nextOwner = NoKey THEN [i EXCEPT !.pc = "upload"]
                      ELSE IF i.nextOwner.type \in {"rsa", "ecdsa", "certchain"}
                      THEN LET j == Logged(i, "ExtendVoucher", [owner |-> i.nextOwner, ok |-> ok]) IN
                           IF ok THEN [j EXCEPT !.pc = "upload",
                                                !.ov = ExtendedVoucher(i.ov, i.nextOwner)]
                           ELSE Fatal(j, "failed to extend voucher to owner")
                      ELSE Fatal(i, "unsupported owner key type")]
    /\ UNCHANGED <<resolverVars, pol, dec, vconfig, hasExtraSvc>>

\* A variant of the signing step that tries again after a failure.
SignCall_Retry(d) ==
    /\ d \in DOMAIN inv
    /\ inv[d].pc = "signcall"
    /\ Len(inv[d].log) < 6
    /\ \E ok \in BOOLEAN :
         LET i == inv[d]
             j == Logged(i, "SignVoucher",
                         [owner |-> i.nextOwner, serial |-> i.serial, model |-> i.model,
                          extra |-> i.extraData, session |-> signerSession, ok |-> ok]) IN
         inv' = [inv EXCEPT ![d] =
                   IF ok THEN [j EXCEPT !.pc = "upload", !.ov = SignedVoucher(i.ov, i.nextOwner)]
                   ELSE j]
    /\ UNCHANGED <<resolverVars, pol, dec, vconfig, hasExtraSvc, signerSession>>

\* lines 147-153: SignVoucher, which works with the session state the
\* signing service holds at that moment
SignCall(d) ==
    /\ d \in DOMAIN inv
    /\ inv[d].pc = "signcall"
    /\ \E ok \in BOOLEAN :
         LET i == inv[d]
             j == Logged(i, "SignVoucher",
                         [owner |-> i.nextOwner, serial |-> i.serial, model |-> i.model,
                          extra |-> i.extraData, session |-> signerSession, ok |-> ok]) IN
         inv' = [inv EXCEPT ![d] =
                   IF ok THEN [j EXCEPT !.pc = "upload", !.ov = SignedVoucher(i.ov, i.nextOwner)]
                   ELSE Fatal(j, "voucher signing failed")]
    /\ UNCHANGED <<resolverVars, pol, dec, vconfig, hasExtraSvc, signerSession>>

\* A variant of the upload step that treats a failed upload as best-effort.
Upload_IgnoreFailure(d) ==
    /\ d \in DOMAIN inv
    /\ inv[d].pc = "upload"
    /\ \E ok \in BOOLEAN :
         LET i == inv[d]
             j == Logged(i, "UploadVoucher",
                         [serial |-> i.serial, model |-> i.model, guid |-> i.guid, ov |-> i.ov,
                          ok |-> ok]) IN
         /\ (~vconfig.VoucherUpload.Enabled => ok)
         /\ inv' = [inv EXCEPT ![d] =
                      IF ~vconfig.VoucherUpload.Enabled THEN [i EXCEPT !.pc = "disk"]
                      ELSE [j EXCEPT !.pc = "disk"]]
    /\ UNCHANGED <<resolverVars, pol, dec, vconfig, hasExtraSvc, signerSession>>

\* A variant of the upload step that hands the caller its original voucher back
\* when the upload failed.
Upload_Rollback(d) ==
    /\ d \in DOMAIN inv
    /\ inv[d].pc = "upload"
    /\ \E ok \in BOOLEAN :
         LET i == inv[d]
             j == Logged(i, "UploadVoucher",
                         [serial |-> i.serial, model |-> i.model, guid |-> i.guid, ov |-> i.ov,
                          ok |-> ok]) IN
         /\ (~vconfig.VoucherUpload.Enabled => ok)
         /\ inv' = [inv EXCEPT ![d] =
                      IF ~vconfig.VoucherUpload.Enabled THEN [i EXCEPT !.pc = "disk"]
                      ELSE IF ok THEN [j EXCEPT !.pc = "disk"]
                      ELSE Fatal([j EXCEPT !.ov = i.ov0], "voucher upload failed")]
    /\ UNCHANGED <<resolverVars, pol, dec, vconfig, hasExtraSvc, signerSession>>

\* lines 186-191: UploadVoucher(ctx, serial, model, guidStr, ov)
Upload(d) ==
    /\ d \in DOMAIN inv
    /\ inv[d].pc = "upload"
    /\ \E ok \in BOOLEAN :
         LET i == inv[d]
             j == Logged(i, "UploadVoucher",
                         [serial |-> i.serial, model |-> i.model, guid |-> i.guid, ov |-> i.ov,
                          ok |-> ok]) IN
         /\ (~vconfig.VoucherUpload.Enabled => ok)
         /\ inv' = [inv EXCEPT ![d] =
                      IF ~vconfig.VoucherUpload.Enabled THEN [i EXCEPT !.pc = "disk"]
                      ELSE IF ok THEN [j EXCEPT !.pc = "disk"]
                      ELSE Fatal(j, "voucher upload failed")]
    /\ UNCHANGED <<resolverVars, pol, dec, vconfig, hasExtraSvc, signerSession>>

\* A variant of the last step that answers "do not persist" when the disk
\* save failed.
DiskAndDecide_FailFalse(d) ==
    /\ d \in DOMAIN inv
    /\ inv[d].pc = "disk"
    /\ \E ok \in BOOLEAN :
         LET i == inv[d]
             j == IF vconfig.SaveToDisk.Directory # ""
                  THEN Logged(i, "SaveVoucherToDisk", [ov |-> i.ov, serial |-> i.serial, ok |-> ok])
                  ELSE i IN
         /\ (vconfig.SaveToDisk.Directory = "" => ok)
         /\ inv' = [inv EXCEPT ![d] =
                      [j EXCEPT !.pc = "done",
                                !.ret = [status |-> "ok", persist |-> (ok /\ vconfig.PersistToDB),
                                         err |-> ""]]]
    /\ UNCHANGED <<resolverVars, pol, dec, vconfig, hasExtraSvc, signerSession>>

\* A variant of the last step in which a failed disk save is fatal.
DiskAndDecide_FailFatal(d) ==
    /\ d \in DOMAIN inv
    /\ inv[d].pc = "disk"
    /\ \E ok \in BOOLEAN :
         LET i == inv[d]
             j == IF vconfig.SaveToDisk.Directory # ""
                  THEN Logged(i, "SaveVoucherToDisk", [ov |-> i.ov, serial |-> i.serial, ok |-> ok])
                  ELSE i IN
         /\ (vconfig.SaveToDisk.Directory = "" => ok)
         /\ inv' = [inv EXCEPT ![d] =
                      IF ok
                      THEN [j EXCEPT !.pc = "done",
                                     !.ret = [status |-> "ok", persist |-> vconfig.PersistToDB,
                                              err |-> ""]]
                      ELSE Fatal(j, "voucher disk save failed")]
    /\ UNCHANGED <<resolverVars, pol, dec, vconfig, hasExtraSvc, signerSession>>

\* lines 193-204: SaveVoucherToDisk, whose error is only printed, and the
\* persistence decision
DiskAndDecide(d) ==
    /\ d \in DOMAIN inv
    /\ inv[d].pc = "disk"
    /\ \E ok \in BOOLEAN :
         LET i == inv[d]
             j == IF vconfig.SaveToDisk.Directory # ""
                  THEN Logged(i, "SaveVoucherToDisk", [ov |-> i.ov, serial |-> i.serial, ok |-> ok])
                  ELSE i IN
         /\ (vconfig.SaveToDisk.Directory = "" => ok)
         /\ inv' = [inv EXCEPT ![d] =
                      [j EXCEPT !.pc = "done",
                                !.ret = [status |-> "ok", persist |-> vconfig.PersistToDB,
                                         err |-> ""]]]
    /\ UNCHANGED <<resolverVars, pol, dec, vconfig, hasExtraSvc, signerSession>>

\* The owner-signover settings explored: static with no key, with a key that
\* decodes and with one that does not; dynamic with and without a command;
\* a mode that is neither.
OwnerSignovers ==
    { [Mode |-> "static",  StaticPublicKey |-> k, ExternalCommand |-> ""] :
          k \in {EmptyStr, PemPKIX, PemJunk} }
    \cup { [Mode |-> "dynamic", StaticPublicKey |-> EmptyStr, ExternalCommand |-> c] :
          c \in {"", "get_owner_key.sh"} }
    \cup { [Mode |-> "did", StaticPublicKey |-> EmptyStr, ExternalCommand |-> ""] }

VoucherConfigs ==
    [PersistToDB    : BOOLEAN,
     VoucherSigning : [Mode : {"", "internal"}],
     OwnerSignover  : OwnerSignovers,
     VoucherUpload  : [Enabled : BOOLEAN],
     SaveToDisk     : [Directory : {"", "vouchers"}]]

\* ---------------------------------------------------------- specifications
ResolverParked ==
    /\ config = CfgOff /\ sessionState = "nil" /\ dbFaults = FALSE
    /\ did_cache = {} /\ clock = 0 /\ active = {}
    /\ call = [p \in Procs |-> IdleCall]
    /\ purged = [op |-> "none", n |-> 0, err |-> ""]

\* The resolver, one caller at a time, with cache maintenance between calls.
Init ==
    /\ \E s \in Setups : config = s[1] /\ sessionState = s[2] /\ dbFaults = s[3]
    /\ did_cache = {}
    /\ clock = 0
    /\ active = {"p1"}
    /\ call = [p \in Procs |-> IdleCall]
    /\ purged = [op |-> "none", n |-> 0, err |-> ""]
    /\ pol = NoPol
    /\ dec = NoDec
    /\ VoucherParked

Next ==
    \/ \E p \in Procs, u \in URIs : Call(p, u)
    \/ \E p \in Procs : Lookup(p)
    \/ \E p \in Procs : Touch(p)
    \/ \E p \in Procs : Fetched(p)
    \/ PurgeExpired
    \/ PurgeAll
    \/ Tick

Spec == Init /\ [][Next]_vars

\* The refresh policy on every entry, time and configuration of the grid.
InitPolicy ==
    /\ config \in PolicyConfigs
    /\ sessionState = "nil" /\ dbFaults = FALSE
    /\ did_cache = {} /\ clock = 0 /\ active = {}
    /\ call = [p \in Procs |-> IdleCall]
    /\ purged = [op |-> "none", n |-> 0, err |-> ""]
    /\ pol \in [timestamp : Durations, last_refresh_attempt : Durations,
                now : Durations, done : {FALSE}, out : {FALSE}]
    /\ dec = NoDec
    /\ VoucherParked

NextPolicy == EvalPolicy

SpecPolicy == InitPolicy /\ [][NextPolicy]_vars

\* One BeforeVoucherPersist invocation under every configuration.
InitVoucher ==
    /\ ResolverParked
    /\ pol = NoPol
    /\ dec = NoDec
    /\ vconfig \in VoucherConfigs
    /\ hasExtraSvc \in BOOLEAN
    /\ signerSession = "unset"
    /\ inv = [d \in {"d1"} |-> IdleInv]

NextVoucher ==
    \/ \E d \in Devs : \E s \in SessionsOf(d), di \in {"", "devinfo"} : Begin(d, s, VoucherOf(d, di))
    \/ \E d \in Devs : Owner(d)
    \/ \E d \in Devs : Prepare(d)
    \/ \E d \in Devs : SignCall(d)
    \/ \E d \in Devs : Upload(d)
    \/ \E d \in Devs : DiskAndDecide(d)

SpecVoucher == InitVoucher /\ [][NextVoucher]_vars

\* BeforeVoucherPersist running for two devices at once on one
\* VoucherCallbackService, whose collaborators (the signing service among
\* them) are the instance's fields: the steps of the two invocations
\* interleave.
PairConfigs ==
    [PersistToDB    : {TRUE},
     VoucherSigning : [Mode : {"", "internal"}],
     OwnerSignover  : {[Mode |-> "static", StaticPublicKey |-> PemPKIX, ExternalCommand |-> ""]},
     VoucherUpload  : [Enabled : {TRUE}],
     SaveToDisk     : [Directory : {"vouchers"}]]

InitVoucherPair ==
    /\ ResolverParked
    /\ pol = NoPol
    /\ dec = NoDec
    /\ vconfig \in PairConfigs
    /\ hasExtraSvc = FALSE
    /\ signerSession = "unset"
    /\ inv = [d \in Devs |-> IdleInv]

SpecVoucherPair == InitVoucherPair /\ [][NextVoucher]_vars

\* Two callers resolving the same did:web URI at once on one resolver and one
\* store: the resolver takes no lock, so the statements of the two calls
\* interleave at every store access and network round trip.
RaceCall(p) == call[p].pc = "idle" /\ Call(p, WebURI)

InitRace ==
    /\ config = CfgDefault /\ sessionState = "db" /\ dbFaults = FALSE
    /\ did_cache = {}
    /\ clock = 0
    /\ active = Procs
    /\ call = [p \in Procs |-> IdleCall]
    /\ purged = [op |-> "none", n |-> 0, err |-> ""]
    /\ pol = NoPol
    /\ dec = NoDec
    /\ VoucherParked

NextRace ==
    \/ \E p \in Procs : RaceCall(p)
    \/ \E p \in Procs : Lookup(p)
    \/ \E p \in Procs : Touch(p)
    \/ \E p \in Procs : Fetched(p)
    \/ Tick

SpecRace == InitRace /\ [][NextRace]_vars

\* Cache maintenance on a store that holds entries for up to two URIs, each
\* as a fetch at some time wrote it and later calls touched it.
CfgPurgeSoon == [CfgDefault EXCEPT !.PurgeUnused = 2]
StoredRow(didURI, fetchedAt, usedAt) ==
    LET e == fetchDIDWeb(didURI, fetchedAt, [kind |-> "body", doc |-> DocA], "rnd1").entry IN
    CHOOSE r \in updateLastUsed("db", {e}, didURI, usedAt, TRUE) : TRUE
StoredRows(didURI) ==
    { StoredRow(didURI, t, u) : t \in 0..MaxTime, u \in 0..MaxTime }
Stores ==
    { a \cup b : a \in {{}} \cup { {r} : r \in StoredRows(WebURI) },
                 b \in {{}} \cup { {r} : r \in StoredRows(WebURI2) } }

InitPurge ==
    /\ config \in {CfgDefault, CfgPurgeSoon}
    /\ sessionState \in {"db", "nil"} /\ dbFaults = FALSE
    /\ clock \in 0..MaxTime
    /\ did_cache \in Stores
    /\ \A r \in did_cache : r.timestamp <= r.last_used /\ r.last_used <= clock
    /\ sessionState = "nil" => did_cache = {}
    /\ active = {}
    /\ call = [p \in Procs |-> IdleCall]
    /\ purged = [op |-> "none", n |-> 0, err |-> ""]
    /\ pol = NoPol
    /\ dec = NoDec
    /\ VoucherParked

NextPurge ==
    \/ PurgeExpired
    \/ PurgeAll
    \/ Tick

SpecPurge == InitPurge /\ [][NextPurge]_vars

\* Two calls for one did:web URI, one after the other, on a store that
\* already holds an entry for it, fetched at time 0: the second call is made
\* once the first has returned.
FirstCall  == RaceCall("p1")
FollowCall == call["p1"].pc = "done" /\ RaceCall("p2")

InitFollow ==
    /\ config \in {CfgDefault, CfgBackoff}
    /\ sessionState = "db" /\ dbFaults = FALSE
    /\ did_cache = {StoredRow(WebURI, 0, 0)}
    /\ clock = 0
    /\ active = Procs
    /\ call = [p \in Procs |-> IdleCall]
    /\ purged = [op |-> "none", n |-> 0, err |-> ""]
    /\ pol = NoPol
    /\ dec = NoDec
    /\ VoucherParked

NextFollow ==
    \/ FirstCall
    \/ FollowCall
    \/ \E p \in Procs : Lookup(p)
    \/ \E p \in Procs : Touch(p)
    \/ \E p \in Procs : Fetched(p)
    \/ Tick

SpecFollow == InitFollow /\ [][NextFollow]_vars

\* The two PEM decoders on every input.
InitDecode ==
    /\ ResolverParked
    /\ pol = NoPol
    /\ VoucherParked
    /\ dec \in [who : {"authority", "static"}, input : PemInputs, done : {FALSE},
                err : {""}, key : {NoKey}]

NextDecode == DecodeAuthority \/ DecodeStatic

SpecDecode == InitDecode /\ [][NextDecode]_vars

\* The resolver with one caller on a store whose statements can fail, and on
\* session states that give no store at all.
FaultCall(p) == Call(p, WebURI)
FaultTick == clock < MaxFaultTime /\ Tick

InitFaults ==
    /\ config = CfgDefault
    /\ \E s \in {<<"db", TRUE>>, <<"nil", FALSE>>, <<"nodb", FALSE>>} :
          sessionState = s[1] /\ dbFaults = s[2]
    /\ did_cache = {}
    /\ clock = 0
    /\ active = {"p1"}
    /\ call = [p \in Procs |-> IdleCall]
    /\ purged = [op |-> "none", n |-> 0, err |-> ""]
    /\ pol = NoPol
    /\ dec = NoDec
    /\ VoucherParked

NextFaults ==
    \/ \E p \in Procs : FaultCall(p)
    \/ \E p \in Procs : Lookup(p)
    \/ \E p \in Procs : Touch(p)
    \/ \E p \in Procs : Fetched(p)
    \/ FaultTick

SpecFaults == InitFaults /\ [][NextFaults]_vars

\* ===================================================== resolver properties
\* The step in which caller p's request comes back and the call returns.
Returns(p)      == call[p].pc = "http" /\ call'[p].pc = "done"
FetchFailed(p)  == Returns(p) /\ call'[p].fres # "ok"
FetchSucceeded(p) == Returns(p) /\ call'[p].fres = "ok"
KeyOf(row)      == deserializePublicKey(row.public_key).key

\* C1: a failed refresh of an existing entry returns success with the key and
\* delivery URL the entry held before the attempt, leaves resolved_at alone and
\* sets last_refresh_attempt to the attempt time and last_refresh_error to a
\* non-empty message.
C1_FailedRefreshServesStale ==
    [][\A p \in Procs : \A old \in RowsFor(did_cache, call[p].uri) :
         (FetchFailed(p) /\ call[p].hit /\ ~call'[p].fault) =>
            /\ call'[p].ret = RetOk(KeyOf(old), old.did_url)
            /\ RowsFor(did_cache', call[p].uri) # {}
            /\ \A r \in RowsFor(did_cache', call[p].uri) :
                 /\ r.last_refresh_attempt = call[p].fnow
                 /\ r.last_refresh_error # ""
                 /\ r.last_refresh_error = call'[p].fres
                 /\ r.timestamp = old.timestamp
                 /\ r.public_key = old.public_key
                 /\ r.did_url = old.did_url]_vars

C1_Witness ==
    \E p \in Procs :
       /\ call[p].pc = "done" /\ call[p].hit /\ call[p].nfetch = 1
       /\ call[p].fres = "HTTP status when fetching DID document"
       /\ call[p].ret.status = "ok"
       /\ \E r \in RowsFor(did_cache, call[p].uri) :
            r.last_refresh_error = call[p].fres /\ r.last_refresh_attempt > r.timestamp

\* C3 (as claimed): every successful fetch, on a miss or as a refresh, leaves
\* exactly one entry for the URI holding the fetched key and URL with
\* resolved_at = last_refresh_attempt = the fetch time and no error, and the
\* call returns the fetched key and URL.
C3_FetchOverwritesEntry ==
    [][\A p \in Procs :
         (FetchSucceeded(p) /\ sessionState = "db" /\ ~call'[p].fault) =>
            /\ call'[p].ret.status = "ok"
            /\ Cardinality(RowsFor(did_cache', call[p].uri)) = 1
            /\ \A r \in RowsFor(did_cache', call[p].uri) :
                 /\ r.public_key = MarshalPKIXPublicKey(call'[p].ret.key).bytes
                 /\ r.did_url = call'[p].ret.url
                 /\ r.timestamp = call[p].fnow
                 /\ r.last_refresh_attempt = call[p].fnow
                 /\ r.last_refresh_error = ""]_vars

\* C4: with no entry for the URI, a failed fetch makes the call return the
\* fetch error and no key, and the store still holds no entry for the URI.
C4_MissFailurePropagates ==
    [][\A p \in Procs :
         (FetchFailed(p) /\ RowsFor(did_cache, call[p].uri) = {}) =>
            /\ call'[p].ret = RetErr(call'[p].fres)
            /\ call'[p].ret.key = NoKey
            /\ RowsFor(did_cache', call[p].uri) = {}]_vars

C4_Witness ==
    \E p \in Procs :
       /\ call[p].pc = "done" /\ ~call[p].hit /\ call[p].nfetch = 1
       /\ sessionState = "db"
       /\ call[p].ret.status = "err"
       /\ call[p].ret.err = "failed to fetch DID document"
       /\ RowsFor(did_cache, call[p].uri) = {}

\* C5: a call that finds an entry of age (now - resolved_at) below
\* RefreshInterval and not above MaxAge makes no network fetch and returns
\* exactly the stored key and URL.
FreshAt(row, now) ==
    /\ now - row.timestamp < config.RefreshInterval
    /\ now - row.timestamp <= config.MaxAge
C5_FreshEntryServedWithoutFetch ==
    [][\A p \in Procs : \A old \in RowsFor(did_cache, call[p].uri) :
         (call[p].pc \in {"get", "touch"} /\ FreshAt(old, call[p].now) /\ ~call'[p].fault) =>
            /\ call'[p].pc # "http"
            /\ call'[p].nfetch = 0
            /\ (call'[p].pc = "done" => call'[p].ret = RetOk(KeyOf(old), old.did_url))]_vars

C5_Witness ==
    \E p \in Procs : \E r \in RowsFor(did_cache, call[p].uri) :
       /\ call[p].pc = "done" /\ call[p].hit /\ call[p].nfetch = 0
       /\ call[p].ret = RetOk(KeyOf(r), r.did_url)
       /\ r.last_used > r.timestamp

\* ======================================================= refresh policy
\* C2: with a = now - resolved_at and b = now - last_refresh_attempt, the
\* policy answers refresh exactly when a > MaxAge, or a >= RefreshInterval and
\* b >= FailureBackoff.
C2_RefreshPolicy ==
    pol.done =>
      LET a == pol.now - pol.timestamp
          b == pol.now - pol.last_refresh_attempt IN
      pol.out <=> \/ a > config.MaxAge
                  \/ a >= config.RefreshInterval /\ b >= config.FailureBackoff

\* MaxAge exceeded inside the backoff window: refresh all the same.
C2_Witness ==
    /\ pol.done /\ pol.out
    /\ pol.now - pol.timestamp > config.MaxAge
    /\ pol.now - pol.timestamp >= config.RefreshInterval
    /\ pol.now - pol.last_refresh_attempt < config.FailureBackoff

\* ================================================= orchestrator properties
OpsOf(i) == {i.log[k].op : k \in 1..Len(i.log)}
FatalOps == {"GetOwnerKey", "ExtendVoucher", "SignVoucher", "UploadVoucher"}
ErrorOf(op) ==
    IF op = "GetOwnerKey" THEN "failed to get dynamic owner key"
    ELSE IF op = "ExtendVoucher" THEN "failed to extend voucher to owner"
    ELSE IF op = "SignVoucher" THEN "voucher signing failed"
    ELSE "voucher upload failed"
LaterSteps(op) ==
    IF op = "GetOwnerKey"
    THEN {"GetOVEExtraData", "ExtendVoucher", "SignVoucher", "UploadVoucher", "SaveVoucherToDisk"}
    ELSE IF op \in {"ExtendVoucher", "SignVoucher"} THEN {"UploadVoucher", "SaveVoucherToDisk"}
    ELSE {"SaveVoucherToDisk"}
StaticKeyUndecodable ==
    /\ vconfig.OwnerSignover.Mode = "static"
    /\ vconfig.OwnerSignover.StaticPublicKey # EmptyStr
    /\ parseStaticPublicKey(vconfig.OwnerSignover.StaticPublicKey).err # ""

\* C6: a failed owner resolution, signing/extension or upload ends the
\* invocation at once with that error and persist = false; no later step of
\* the pipeline is called after the failed one.
C6_FatalFailureAborts ==
    \A d \in DOMAIN inv :
       LET i == inv[d] IN
       /\ \A k \in 1..Len(i.log) :
            (i.log[k].op \in FatalOps /\ ~i.log[k].arg.ok) =>
               /\ k = Len(i.log)
               /\ i.pc = "done"
               /\ i.ret = [status |-> "err", persist |-> FALSE, err |-> ErrorOf(i.log[k].op)]
               /\ OpsOf(i) \cap LaterSteps(i.log[k].op) = {}
       /\ (StaticKeyUndecodable /\ i.pc \notin {"idle", "owner"} /\ i.ret.status # "panic") =>
               /\ i.pc = "done"
               /\ i.ret = [status |-> "err", persist |-> FALSE,
                           err |-> "failed to parse static public key"]
               /\ i.log = <<>>

\* Scenario C: the authority answers with an error message.
C6_Witness ==
    \E d \in DOMAIN inv :
       LET i == inv[d] IN
       /\ i.pc = "done" /\ i.ret.status = "err" /\ ~i.ret.persist
       /\ vconfig.PersistToDB /\ vconfig.VoucherUpload.Enabled
       /\ vconfig.VoucherSigning.Mode = "internal" /\ vconfig.SaveToDisk.Directory # ""
       /\ Len(i.log) = 1 /\ i.log[1].op = "GetOwnerKey"
       /\ i.oks.err = "owner key service error"

\* C7: an invocation that completes without a fatal error returns the
\* configured persist-to-store flag.
C7_ReturnsPersistFlag ==
    \A d \in DOMAIN inv :
       (inv[d].pc = "done" /\ inv[d].ret.status = "ok") =>
           /\ inv[d].ret.persist = vconfig.PersistToDB
           /\ inv[d].ret.err = ""

\* The disk save failed, nothing was signed, and the flag comes back as set.
C7_Witness ==
    \E d \in DOMAIN inv :
       LET i == inv[d] IN
       /\ i.pc = "done" /\ i.ret.status = "ok" /\ i.ret.persist /\ vconfig.PersistToDB
       /\ vconfig.VoucherSigning.Mode = ""
       /\ \E k \in 1..Len(i.log) : i.log[k].op = "SaveVoucherToDisk" /\ ~i.log[k].arg.ok

\* The authority answered with an identifier URI and nothing else, and the
\* URI's document is there to be fetched and carries a JWK.
AnsweredWithDID(i) ==
    /\ i.oks.ran # <<>>
    /\ i.resp.exec = "ok" /\ i.resp.json /\ i.resp.error = ""
    /\ i.resp.owner_did = WebURI
    /\ i.net.kind = "body" /\ i.net.doc \in {DocA, DocFile}
KeysOfDoc(doc) == {extractPublicKey(doc, rnd).key : rnd \in GenMat}

\* C8 (as claimed): in dynamic mode with default signing, the key and delivery
\* URL resolved from the authority's identifier URI reach the signing step (as
\* next owner) and the upload (as its destination).
C8_DynamicDIDSignedAndRouted ==
    \A d \in DOMAIN inv :
       LET i == inv[d] IN
       (/\ i.pc = "done" /\ AnsweredWithDID(i)
        /\ vconfig.VoucherSigning.Mode = "internal" /\ vconfig.VoucherUpload.Enabled) =>
           /\ \E k \in 1..Len(i.log) :
                /\ i.log[k].op = "SignVoucher"
                /\ i.log[k].arg.owner \in KeysOfDoc(i.net.doc)
           /\ \A k \in 1..Len(i.log) :
                i.log[k].op = "UploadVoucher" =>
                   /\ "url" \in DOMAIN i.log[k].arg
                   /\ i.log[k].arg.url = extractDIDURL(i.net.doc)

\* C9 (as claimed): an identifier URI in the authority's answer makes
\* GetOwnerKey return the key and delivery URL the resolver produces for it.
C9_DIDResponseResolved ==
    \A d \in DOMAIN inv :
       LET i == inv[d] IN
       AnsweredWithDID(i) =>
           /\ i.oks.err = ""
           /\ i.oks.ran = <<"Execute", "handleDIDResponse">>
           /\ i.oks.res.type = "OwnerKeyResult"
           /\ i.oks.res.PublicKey \in KeysOfDoc(i.net.doc)
           /\ i.oks.res.DIDURL = extractDIDURL(i.net.doc)

\* C10: GetOwnerKey reads the envelope in the order error, identifier URI,
\* encoded key: an error message fails the call with nothing resolved or
\* decoded; else an identifier URI is resolved, whatever the key field holds;
\* else a key is decoded; else the call fails as an empty response.
C10_EnvelopePriority ==
    \A d \in DOMAIN inv :
       LET i == inv[d] r == i.resp o == i.oks IN
       (o.ran # <<>> /\ r.exec = "ok" /\ r.json) =>
          /\ r.error # "" =>
                o.err = "owner key service error" /\ o.ran = <<"Execute">> /\ o.res = NoResult
          /\ (r.error = "" /\ r.owner_did # "") =>
                o.ran = <<"Execute", "handleDIDResponse">>
          /\ (r.error = "" /\ r.owner_did = "" /\ r.owner_key_pem # EmptyStr) =>
                /\ o.ran = <<"Execute", "parsePublicKeyFromPEM">>
                /\ o.err \in {"", "failed to parse PEM key"}
                /\ o.err = "" => o.res = OwnerKeyResult(r.owner_key_pem.key, "")
          /\ (r.error = "" /\ r.owner_did = "" /\ r.owner_key_pem = EmptyStr) =>
                o.err = "no owner key returned" /\ o.ran = <<"Execute">> /\ o.res = NoResult

\* An error message beside an identifier URI and a key: only the error counts.
C10_Witness ==
    \E d \in DOMAIN inv :
       LET i == inv[d] IN
       /\ i.oks.ran = <<"Execute">>
       /\ i.resp.exec = "ok" /\ i.resp.json
       /\ i.resp.error # "" /\ i.resp.owner_did # "" /\ i.resp.owner_key_pem # EmptyStr
       /\ i.oks.err = "owner key service error"
       /\ i.pc = "done" /\ i.ret.status = "err"

\* C11: an answer carrying only an encoded key (a "PUBLIC KEY" or a
\* "CERTIFICATE" block) makes GetOwnerKey return the decoded key, for a
\* certificate the key embedded in it, with an empty delivery URL, and without
\* calling the resolver.
C11_EncodedKeyDecoded ==
    \A d \in DOMAIN inv :
       LET i == inv[d] r == i.resp o == i.oks IN
       (/\ o.ran # <<>> /\ r.exec = "ok" /\ r.json
        /\ r.error = "" /\ r.owner_did = ""
        /\ r.owner_key_pem \in {PemPKIX, PemCert}) =>
           /\ o.err = ""
           /\ o.res.type = "OwnerKeyResult"
           /\ o.res.PublicKey = (IF r.owner_key_pem = PemCert THEN KeyRSA ELSE KeyEC)
           /\ o.res.DIDURL = ""
           /\ o.ran = <<"Execute", "parsePublicKeyFromPEM">>

\* Scenario B: the authority answers with a certificate.
C11_Witness ==
    \E d \in DOMAIN inv :
       LET i == inv[d] IN
       /\ i.oks.ran = <<"Execute", "parsePublicKeyFromPEM">>
       /\ i.resp.error = "" /\ i.resp.owner_did = "" /\ i.resp.owner_key_pem = PemCert
       /\ i.oks.err = ""
       /\ i.oks.res = OwnerKeyResult(KeyRSA, "")

\* =============================================== concurrent invocations
\* C12 (as claimed): with invocations for distinct devices running
\* concurrently, every signing call works with the session state that was
\* handed to its own invocation.
C12_SigningSeesOwnSession ==
    \A d \in DOMAIN inv :
       \A k \in 1..Len(inv[d].log) :
          inv[d].log[k].op = "SignVoucher" =>
             inv[d].log[k].arg.session = inv[d].session.id

\* C13 (as claimed): under concurrent calls for one did:web URI the store
\* never holds two entries for it, and the entry left when the calls have
\* finished is the one written by the last successful fetch: when a fetch
\* succeeds and every other caller has finished, the entry holds that fetch's
\* key, delivery URL and fetch time.
C13_LastWriterWins ==
    [][\A p \in Procs :
         /\ Cardinality(RowsFor(did_cache', WebURI)) <= 1
         /\ (FetchSucceeded(p) /\ \A q \in Procs \ {p} : call[q].pc = "done") =>
               /\ RowsFor(did_cache', call[p].uri) # {}
               /\ \A r \in RowsFor(did_cache', call[p].uri) :
                    /\ KeyOf(r) = call'[p].ret.key
                    /\ r.did_url = call'[p].ret.url
                    /\ r.timestamp = call[p].fnow]_vars

\* C14: a fetch cancelled while an entry for the URI exists leaves the entry
\* in the store with its key, delivery URL and resolved_at unchanged; and a
\* later call that finds the entry marked by the cancelled attempt, and does
\* not itself fetch it anew, returns the entry's key and delivery URL.
Cancelled(p) == Returns(p) /\ call'[p].fres = CancelMsg
Finishes(p)  == call[p].pc # "done" /\ call'[p].pc = "done"
C14_CancelKeepsEntry ==
    [][\A p \in Procs : \A old \in RowsFor(did_cache, call[p].uri) :
         /\ Cancelled(p) =>
               /\ RowsFor(did_cache', call[p].uri) # {}
               /\ \A r \in RowsFor(did_cache', call[p].uri) :
                    /\ r.public_key = old.public_key
                    /\ r.did_url = old.did_url
                    /\ r.timestamp = old.timestamp
         /\ (/\ Finishes(p) /\ call'[p].hit /\ call'[p].fres \notin {"ok", CancelMsg}
             /\ old.last_refresh_error = CancelMsg) =>
               call'[p].ret = RetOk(KeyOf(old), old.did_url)]_vars

\* The attempt of an earlier call was cancelled and recorded as such; a later
\* call, not cancelled, has returned the entry's key and delivery URL.
C14_Witness ==
    \E p \in Procs : \E r \in RowsFor(did_cache, WebURI) :
       /\ call[p].pc = "done" /\ call[p].uri = WebURI /\ call[p].hit
       /\ call[p].fres # CancelMsg
       /\ r.last_refresh_error = CancelMsg
       /\ r.last_refresh_attempt > r.timestamp
       /\ call[p].ret = RetOk(KeyOf(r), r.did_url)

\* C15: a call on a did:key URI comes back in the step that makes it, without
\* a lookup, a touch of last_used, a fetch or an error record: the store is
\* the same before and after, whatever the call returns.
C15_DidKeyLeavesStoreAlone ==
    [][\A p \in Procs :
         (call'[p].uri = KeyURI /\ call'[p] # call[p]) =>
            /\ did_cache' = did_cache
            /\ call'[p].pc = "done"
            /\ ~call'[p].hit /\ call'[p].nfetch = 0 /\ call'[p].fres = ""
            /\ call'[p].ret.status \in {"ok", "err"}]_vars

\* A did:key call has returned while the store holds an entry.
C15_Witness ==
    \E p \in Procs :
       /\ call[p].pc = "done" /\ call[p].uri = KeyURI
       /\ call[p].ret.status \in {"ok", "err"}
       /\ config.Enabled /\ sessionState = "db" /\ did_cache # {}

\* C16: with the resolver disabled every call, whatever the URI's method,
\* comes back at once with the disabled error, without a lookup, a fetch or a
\* change of the store.
C16_DisabledFailsEveryCall ==
    [][\A p \in Procs :
         (~config.Enabled /\ call'[p] # call[p]) =>
            /\ call'[p].pc = "done"
            /\ call'[p].ret = RetErr("DID cache is disabled")
            /\ did_cache' = did_cache
            /\ ~call'[p].hit /\ call'[p].nfetch = 0 /\ call'[p].fres = ""]_vars

\* A did:web call on a disabled resolver with a store behind it has failed.
C16_Witness ==
    \E p \in Procs :
       /\ ~config.Enabled /\ sessionState = "db"
       /\ call[p].pc = "done" /\ call[p].uri = WebURI
       /\ call[p].ret = RetErr("DID cache is disabled")

\* C17 (as claimed): with the resolver enabled, a call on a URI of neither
\* method, a string without any ':' included, returns the unsupported-method
\* error as a value, without a lookup or a fetch.
C17_UnsupportedMethodIsAnError ==
    \A p \in Procs :
       (/\ config.Enabled /\ call[p].pc = "done"
        /\ call[p].uri \in {FooURI, NoColonURI}) =>
           /\ call[p].ret = RetErr("unsupported DID method")
           /\ ~call[p].hit /\ call[p].nfetch = 0

\* C18 (as claimed): the key a fetch returns and stores is the key encoded in
\* the document's JWK (so that the same document always gives the same key):
\* its key material is the JWK's.
C18_KeyIsTheDocumentsKey ==
    /\ \A p \in Procs :
          (call[p].pc = "done" /\ call[p].fres = "ok") => call[p].ret.key.mat = DocMat
    /\ \A r \in did_cache : KeyOf(r).mat = DocMat

\* C19 (as claimed): a successful fetch returns the delivery URL of the
\* fetched document's extension object ("" when the document has none) and
\* stores it in the entry it writes.
C19_DeliveryURLFromDocument ==
    \A p \in Procs :
       (call[p].pc = "done" /\ call[p].fres = "ok") =>
          /\ call[p].ret.url = call[p].doc.ext
          /\ ~call[p].hit =>
                \A r \in RowsFor(did_cache, call[p].uri) : r.did_url = call[p].doc.ext

\* C20: the step in which the disk save fails still ends the invocation with
\* the configured persist flag and no error, and leaves the voucher and the
\* record of the calls made before it (the upload among them) as they were.
DiskSaveFails(d) ==
    /\ inv[d].pc = "disk" /\ inv'[d].pc = "done"
    /\ Len(inv'[d].log) = Len(inv[d].log) + 1
    /\ inv'[d].log[Len(inv'[d].log)].op = "SaveVoucherToDisk"
    /\ ~inv'[d].log[Len(inv'[d].log)].arg.ok
C20_DiskSaveFailureNotFatal ==
    [][\A d \in DOMAIN inv :
         DiskSaveFails(d) =>
            /\ inv'[d].ret = [status |-> "ok", persist |-> vconfig.PersistToDB, err |-> ""]
            /\ inv'[d].ov = inv[d].ov
            /\ SubSeq(inv'[d].log, 1, Len(inv[d].log)) = inv[d].log]_vars

\* Signed, uploaded, then the disk save failed: the invocation succeeded.
C20_Witness ==
    \E d \in DOMAIN inv :
       LET i == inv[d] n == Len(i.log) IN
       /\ i.pc = "done" /\ i.ret.status = "ok" /\ i.ret.persist
       /\ n >= 3
       /\ i.log[n].op = "SaveVoucherToDisk" /\ ~i.log[n].arg.ok
       /\ i.log[n-1].op = "UploadVoucher" /\ i.log[n-1].arg.ok
       /\ i.ov.by = "SignVoucher"

\* C21: a configuration that yields no owner key (static mode with an empty
\* key, a mode that is neither static nor dynamic) does not abort the
\* invocation: the owner step passes on with no key; with a signing mode set
\* SignVoucher is called with an absent owner; and an invocation that comes
\* through returns the configured persist flag.
NoKeyConfigured ==
    \/ vconfig.OwnerSignover.Mode = "static" /\ vconfig.OwnerSignover.StaticPublicKey = EmptyStr
    \/ vconfig.OwnerSignover.Mode \notin {"static", "dynamic"}
C21_NoKeyIsNotFatal ==
    \A d \in DOMAIN inv :
       LET i == inv[d] IN
       (NoKeyConfigured /\ i.pc \notin {"idle", "owner"} /\ i.ret.status # "panic") =>
          /\ i.nextOwner = NoKey
          /\ "GetOwnerKey" \notin OpsOf(i)
          /\ i.ret.status = "err" =>
                i.ret.err \in {"voucher signing failed", "voucher upload failed"}
          /\ (vconfig.VoucherSigning.Mode # "" /\ i.pc \in {"upload", "disk", "done"}) =>
                \E k \in 1..Len(i.log) :
                   i.log[k].op = "SignVoucher" /\ i.log[k].arg.owner = NoKey
          /\ (i.pc = "done" /\ i.ret.status = "ok") => i.ret.persist = vconfig.PersistToDB

\* Scenario D: static mode, empty key, default signing; signed and decided.
C21_Witness ==
    \E d \in DOMAIN inv :
       LET i == inv[d] IN
       /\ vconfig.OwnerSignover.Mode = "static"
       /\ vconfig.OwnerSignover.StaticPublicKey = EmptyStr
       /\ vconfig.VoucherSigning.Mode = "internal" /\ vconfig.PersistToDB
       /\ i.pc = "done" /\ i.ret = [status |-> "ok", persist |-> TRUE, err |-> ""]
       /\ \E k \in 1..Len(i.log) :
            i.log[k].op = "SignVoucher" /\ i.log[k].arg.owner = NoKey /\ i.log[k].arg.ok
       /\ i.ov.by = "SignVoucher" /\ i.ov.entries = <<>>

\* ============================================================ maintenance
\* C22: PurgeExpired on a store deletes exactly the entries whose last_used
\* is earlier than now - PurgeUnused, leaves the others as they were and
\* returns how many it deleted.
PurgeExpiredRan == purged'.op = "expired" /\ clock' = clock /\ sessionState = "db"
C22_PurgeExpiredExact ==
    [][PurgeExpiredRan =>
         /\ did_cache' = {r \in did_cache : ~(r.last_used < clock - config.PurgeUnused)}
         /\ purged'.n = Cardinality(did_cache \ did_cache')
         /\ purged'.err = ""]_vars

\* Of two entries the one not used for long was deleted, the other is there.
C22_Witness ==
    /\ purged = [op |-> "expired", n |-> 1, err |-> ""]
    /\ Cardinality(did_cache) = 1
    /\ \E r \in did_cache : r.timestamp < clock - config.PurgeUnused
                            /\ r.last_used >= clock - config.PurgeUnused

\* ======================================================== refresh over time
\* C23: a call that finds an entry older than MaxAge always goes to the
\* network, however recent the last failed attempt; and when that fetch fails
\* the call returns the entry's key and delivery URL, not an error.
TooOld(c) == c.cached # NoEntry /\ c.now - c.cached.timestamp > config.MaxAge
C23_MaxAgeForcesAttempt ==
    [][\A p \in Procs :
         /\ (call[p].pc = "touch" /\ call'[p].pc # "touch" /\ TooOld(call[p])) =>
               call'[p].pc = "http" /\ call'[p].nfetch = 1
         /\ (FetchFailed(p) /\ TooOld(call[p])) =>
               /\ call'[p].ret.status = "ok"
               /\ call'[p].ret = ReturnCached(call[p].cached)]_vars

\* The entry is older than MaxAge, its last attempt failed less than
\* FailureBackoff ago, and the call is on the network all the same.
C23_Witness ==
    \E p \in Procs :
       /\ call[p].pc = "http" /\ TooOld(call[p])
       /\ call[p].cached.last_refresh_error # ""
       /\ call[p].now - call[p].cached.last_refresh_attempt < config.FailureBackoff

\* C24: with a failed attempt recorded at time t on an entry whose age is
\* between RefreshInterval and MaxAge, a call arriving before
\* t + FailureBackoff makes no network attempt and returns the cached key and
\* URL; a call arriving at or after t + FailureBackoff goes to the network.
FailedBefore(c) ==
    /\ c.cached # NoEntry /\ c.cached.last_refresh_error # ""
    /\ c.now - c.cached.timestamp >= config.RefreshInterval
    /\ c.now - c.cached.timestamp <= config.MaxAge
C24_BackoffSuppressesRetry ==
    [][\A p \in Procs :
         (call[p].pc = "touch" /\ call'[p].pc # "touch" /\ FailedBefore(call[p])) =>
            IF call[p].now < call[p].cached.last_refresh_attempt + config.FailureBackoff
            THEN /\ call'[p].pc = "done" /\ call'[p].nfetch = 0
                 /\ call'[p].ret = ReturnCached(call[p].cached)
                 /\ call'[p].ret.status = "ok"
            ELSE call'[p].pc = "http" /\ call'[p].nfetch = 1]_vars

\* A call inside the backoff window has been served from the entry, which
\* still carries the failure, without a fetch.
C24_Witness ==
    \E p \in Procs : \E r \in RowsFor(did_cache, WebURI) :
       /\ call[p].pc = "done" /\ call[p].uri = WebURI /\ call[p].hit /\ call[p].nfetch = 0
       /\ r.last_refresh_error # ""
       /\ r.last_refresh_attempt - r.timestamp >= config.RefreshInterval
       /\ r.last_used > r.last_refresh_attempt
       /\ r.last_used - r.timestamp <= config.MaxAge
       /\ r.last_used - r.last_refresh_attempt < config.FailureBackoff
       /\ call[p].ret = RetOk(KeyOf(r), r.did_url)

\* C25 (as claimed): once a call has refreshed an existing entry
\* successfully, a following call made less than RefreshInterval after that
\* refresh finds the entry, makes no fetch and returns the refreshed key and
\* delivery URL.
Refreshed(c) == c.pc = "done" /\ c.hit /\ c.fres = "ok"
C25_RefreshResetsAge ==
    [][(/\ Refreshed(call["p1"])
        /\ call["p2"].pc = "touch" /\ call'["p2"].pc # "touch"
        /\ call["p2"].now - call["p1"].fnow < config.RefreshInterval) =>
           /\ call'["p2"].pc = "done"
           /\ call'["p2"].nfetch = 0
           /\ call'["p2"].ret = call["p1"].ret]_vars

\* C26: within one invocation the collaborators are called in the order
\* owner-key resolution, (extra data,) sign or extend, upload, disk save, each
\* at most once, and the invocation never goes back to an earlier step.
StepRank(pc) ==
    IF pc = "idle" THEN 0 ELSE IF pc = "owner" THEN 1 ELSE IF pc = "sign" THEN 2
    ELSE IF pc = "signcall" THEN 3 ELSE IF pc = "upload" THEN 4
    ELSE IF pc = "disk" THEN 5 ELSE 6
OpRank(op) ==
    IF op = "GetOwnerKey" THEN 1 ELSE IF op = "GetOVEExtraData" THEN 2
    ELSE IF op \in {"SignVoucher", "ExtendVoucher"} THEN 3
    ELSE IF op = "UploadVoucher" THEN 4 ELSE 5
C26_LinearPipeline ==
    [][\A d \in DOMAIN inv :
         LET i == inv[d] j == inv'[d] IN
         /\ StepRank(j.pc) >= StepRank(i.pc)
         /\ j.pc # "done" => OpsOf(j) \subseteq {op \in OpsOf(j) : OpRank(op) < StepRank(j.pc)}
         /\ Len(j.log) <= Len(i.log) + 1
         /\ SubSeq(j.log, 1, Len(i.log)) = i.log
         /\ \A k \in 1..(Len(j.log) - 1) : OpRank(j.log[k].op) < OpRank(j.log[k+1].op)]_vars

\* An invocation that went through every step.
C26_Witness ==
    \E d \in DOMAIN inv :
       LET i == inv[d] IN
       /\ i.pc = "done" /\ i.ret.status = "ok"
       /\ Len(i.log) = 5
       /\ [k \in 1..5 |-> i.log[k].op] =
             <<"GetOwnerKey", "GetOVEExtraData", "SignVoucher", "UploadVoucher",
               "SaveVoucherToDisk">>

\* What a successful fetch decides about an entry.
Resolved(r) == <<r.timestamp, r.public_key, r.did_url>>

HitReturns(p) ==
    /\ call[p].pc \in {"touch", "http"} /\ call'[p].pc = "done"
    /\ call[p].hit /\ ~call'[p].fault

\* C28: a call that finds an entry for its did:web URI has set the entry's
\* last_used to the call's time when it returns, whether no refresh was due,
\* the refresh succeeded or the refresh failed.
C28_LastUsedIsCallTime ==
    [][\A p \in Procs : HitReturns(p) =>
          /\ RowsFor(did_cache', call[p].uri) # {}
          /\ \A r \in RowsFor(did_cache', call[p].uri) : r.last_used = call[p].now]_vars

\* A call that found an entry resolved earlier, refreshed it with success and
\* returned; the entry carries the use.
C28_Witness ==
    \E p \in Procs :
       /\ call[p].pc = "done" /\ call[p].hit /\ ~call[p].fault
       /\ call[p].nfetch = 1 /\ call[p].fres = "ok"
       /\ \E r \in RowsFor(did_cache, call[p].uri) :
             r.timestamp < r.last_used /\ r.last_used <= call[p].fnow

\* The key that owner resolution produced for the invocation: the parsed
\* static key, or the key in the result the owner-key service returned.
KeyProduced(i) ==
    IF i.nextOwner = NoKey THEN NoKey
    ELSE IF i.nextOwner.type = "OwnerKeyResult" THEN i.nextOwner.PublicKey
    ELSE i.nextOwner

\* C29: with no signing mode configured, the step after owner resolution
\* extends the voucher by one hop to the resolved key when that key is an RSA
\* key, an elliptic-curve key or a certificate chain (or fails because the
\* extension itself failed), fails with "unsupported owner key type" for any
\* other key, and with no key leaves the voucher as it is and goes on to upload.
C29_DirectExtension ==
    [][\A d \in DOMAIN inv :
         LET i == inv[d] j == inv'[d] k == KeyProduced(inv[d]) IN
         (vconfig.VoucherSigning.Mode = "" /\ i.pc = "sign" /\ j.pc # "sign") =>
            IF k = NoKey
            THEN j = [i EXCEPT !.pc = "upload"]
            ELSE IF k.type \in {"rsa", "ecdsa", "certchain"}
            THEN \/ /\ j.pc = "upload"
                    /\ j.ov = ExtendedVoucher(i.ov, k)
                    /\ Len(j.ov.entries) = Len(i.ov.entries) + 1
                 \/ /\ j.pc = "done" /\ j.ret.status = "err"
                    /\ j.ret.err = "failed to extend voucher to owner"
                    /\ j.ov = i.ov
            ELSE /\ j.pc = "done" /\ j.ret.status = "err"
                 /\ j.ret.err = "unsupported owner key type"
                 /\ j.ov = i.ov]_vars

\* Dynamic owner signover is configured without an external command.
NoCommandConfigured ==
    vconfig.OwnerSignover.Mode = "dynamic" /\ vconfig.OwnerSignover.ExternalCommand = ""

\* C30: in dynamic mode with no external command an invocation that got past
\* the device identity has failed with that error, has called neither the
\* owner-key service, the signing service, upload nor disk save, and has left
\* the voucher as it received it.
C30_DynamicWithoutCommandFatal ==
    \A d \in DOMAIN inv :
       LET i == inv[d] IN
       (NoCommandConfigured /\ i.pc \notin {"idle", "owner"} /\ i.ret.status # "panic") =>
          /\ i.pc = "done"
          /\ i.ret = [status |-> "err", persist |-> FALSE,
                      err |-> "dynamic mode enabled but no external command configured"]
          /\ i.log = <<>>
          /\ i.ov = i.ov0
          /\ i.nextOwner = NoKey

\* Such an invocation, with signing, upload and disk save all configured.
C30_Witness ==
    /\ NoCommandConfigured
    /\ vconfig.VoucherSigning.Mode # "" /\ vconfig.VoucherUpload.Enabled
    /\ vconfig.SaveToDisk.Directory # ""
    /\ \E d \in DOMAIN inv :
          /\ inv[d].pc = "done" /\ inv[d].ret.status = "err"
          /\ inv[d].ret.err = "dynamic mode enabled but no external command configured"

\* The extra-data source was asked and failed.
ExtraDataFailed(i) ==
    \E k \in 1..Len(i.log) : i.log[k].op = "GetOVEExtraData" /\ ~i.log[k].arg.ok

\* C31: with a signing mode configured, a failure of the extra-data source
\* does not end the invocation: the signing service is called next, with no
\* extra data, and the invocation goes on from the signing result exactly as
\* one without a data source does.
C31_ExtraDataFailureSwallowed ==
    [][\A d \in DOMAIN inv :
         LET i == inv[d] j == inv'[d] IN
         /\ (ExtraDataFailed(j) /\ ~ExtraDataFailed(i)) =>
               j.pc = "signcall" /\ j.extraData = "nil" /\ j.ov = i.ov
         /\ (ExtraDataFailed(i) /\ i.pc = "signcall" /\ j.pc # "signcall") =>
               /\ Len(j.log) = Len(i.log) + 1
               /\ j.log[Len(j.log)].op = "SignVoucher"
               /\ j.log[Len(j.log)].arg.extra = "nil"
               /\ j.log[Len(j.log)].arg.owner = i.nextOwner
               /\ IF j.log[Len(j.log)].arg.ok
                  THEN j.pc = "upload" /\ j.ov = SignedVoucher(i.ov, i.nextOwner)
                  ELSE j.pc = "done" /\ j.ret.err = "voucher signing failed"]_vars

\* An invocation whose extra-data source failed and which was signed, went on
\* and returned without error.
C31_Witness ==
    \E d \in DOMAIN inv :
       /\ ExtraDataFailed(inv[d])
       /\ inv[d].pc = "done" /\ inv[d].ret.status = "ok"
       /\ \E k \in 1..Len(inv[d].log) :
             inv[d].log[k].op = "SignVoucher" /\ inv[d].log[k].arg.extra = "nil"

\* C32: with the resolver enabled, a call for a did:key URI returns with
\* success, a public key and an empty delivery URL.
C32_DidKeyResolves ==
    [][\A p \in Procs :
         (config.Enabled /\ call[p].pc \in {"idle", "done"} /\ call'[p] # call[p]
            /\ call'[p].uri = KeyURI) =>
            /\ call'[p].pc = "done"
            /\ call'[p].ret.status = "ok"
            /\ call'[p].ret.key # NoKey
            /\ call'[p].ret.url = ""]_vars

\* The session supplies device metadata: its accessor returns a record.
SessionHasRecord(s) == s.kind = "rec"

\* C33: for every session state the invocation gets past the device identity
\* without crashing, with serial = the session's serial when the session
\* supplies a non-empty one and the hex-encoded GUID otherwise, and model = the
\* session's model when it supplies a non-empty one and the voucher's
\* DeviceInfo otherwise; the serial is never empty.
C33_DeviceIdentity ==
    [][\A d \in DOMAIN inv :
         LET i == inv[d] j == inv'[d] IN
         (i.pc = "idle" /\ j.pc # "idle") =>
            /\ j.ret.status # "panic"
            /\ j.pc = "owner"
            /\ j.serial = IF SessionHasRecord(j.session) /\ j.session.serial # ""
                          THEN <<"str", j.session.serial>> ELSE Hex(j.ov.guid)
            /\ j.model = IF SessionHasRecord(j.session) /\ j.session.model # ""
                         THEN j.session.model ELSE j.ov.deviceInfo
            /\ j.serial # <<"str", "">>]_vars

\* How often GetOwnerKey ran the external command.
Executions(o) == Cardinality({k \in 1..Len(o.ran) : o.ran[k] = "Execute"})

\* C34: each GetOwnerKey call runs the external command exactly once, with
\* the caller's serial and model and an empty guid; when the command fails or
\* its output is not parseable the call returns the error and has neither
\* resolved an identifier nor decoded a key.
C34_SingleAttempt ==
    \A d \in DOMAIN inv :
       LET i == inv[d] IN
       "GetOwnerKey" \in OpsOf(i) =>
          /\ Executions(i.oks) = 1 /\ i.oks.ran[1] = "Execute"
          /\ i.oks.vars = [serialno |-> i.serial, model |-> i.model, guid |-> ""]
          /\ Cardinality({k \in 1..Len(i.log) : i.log[k].op = "GetOwnerKey"}) = 1
          /\ (i.resp.exec # "ok" \/ ~i.resp.json) =>
                /\ i.oks.ran = <<"Execute">>
                /\ i.oks.res = NoResult
                /\ i.oks.err = IF i.resp.exec # "ok"
                               THEN "failed to execute owner key command"
                               ELSE "failed to parse owner key response"
                /\ i.pc = "done" /\ i.ret.err = "failed to get dynamic owner key"

\* A call whose command failed to run.
C34_Witness ==
    \E d \in DOMAIN inv :
       /\ "GetOwnerKey" \in OpsOf(inv[d])
       /\ inv[d].resp.exec # "ok"
       /\ inv[d].oks.err = "failed to execute owner key command"

\* The block types each decoder is said to accept.
AcceptedBlocks(who) ==
    IF who = "authority" THEN {"PUBLIC KEY", "CERTIFICATE"}
    ELSE {"PUBLIC KEY", "CERTIFICATE", "RSA PUBLIC KEY"}

\* C35: both decoders fail when the input holds no PEM block or a block of a
\* type they do not accept: PUBLIC KEY and CERTIFICATE for the authority's
\* decoder, these and the PKCS#1 block for the static-key decoder.
C35_UnsupportedBlockFails ==
    (dec.done /\ dec.input.block \notin AcceptedBlocks(dec.who)) =>
        dec.err # "" /\ dec.key = NoKey

\* The sign or extend call of the invocation succeeded.
SignedOrExtended(i) ==
    \E k \in 1..Len(i.log) : i.log[k].op \in {"SignVoucher", "ExtendVoucher"} /\ i.log[k].arg.ok

\* C36: the caller's voucher is the one it handed in until the sign or extend
\* call has succeeded, and from then on it is that call's result: a failure in
\* owner resolution, signing or extension leaves it unchanged, and a failure
\* of the upload leaves the signed or extended voucher in place.
C36_VoucherReplacedOnSuccessOnly ==
    \A d \in DOMAIN inv :
       LET i == inv[d] IN
       /\ ~SignedOrExtended(i) => i.ov = i.ov0
       /\ SignedOrExtended(i) =>
             i.ov = IF vconfig.VoucherSigning.Mode # ""
                    THEN SignedVoucher(i.ov0, i.nextOwner)
                    ELSE ExtendedVoucher(i.ov0, i.nextOwner)
       /\ (i.pc = "done" /\ i.ret.status = "err"
             /\ i.ret.err \in {"failed to parse static public key",
                               "failed to get dynamic owner key",
                               "dynamic mode enabled but no external command configured",
                               "voucher signing failed", "failed to extend voucher to owner",
                               "unsupported owner key type"}) => i.ov = i.ov0
       /\ (i.pc = "done" /\ i.ret.status = "err" /\ i.ret.err = "voucher upload failed"
             /\ (vconfig.VoucherSigning.Mode # "" \/ i.nextOwner # NoKey)) =>
             SignedOrExtended(i) /\ i.ov # i.ov0

\* An invocation that failed at upload and holds the signed voucher.
C36_Witness ==
    \E d \in DOMAIN inv :
       /\ inv[d].pc = "done" /\ inv[d].ret.err = "voucher upload failed"
       /\ SignedOrExtended(inv[d])
       /\ inv[d].ov = SignedVoucher(inv[d].ov0, inv[d].nextOwner)
       /\ inv[d].ov # inv[d].ov0

\* C37: every cache entry's last refresh attempt is no earlier than its
\* resolution time, also when two resolutions of one URI run side by side.
C37_AttemptNotBeforeResolution ==
    \A r \in did_cache : r.last_refresh_attempt >= r.timestamp

\* The entry the call found has never had a failed refresh.
NeverFailed(c) == c.cached # NoEntry /\ c.cached.last_refresh_error = ""

Max(a, b) == IF a >= b THEN a ELSE b

C39_StoreFailuresAreNotFatal ==
    [][\A p \in Procs :
         LET c == call[p] c1 == call'[p] IN
         /\ (c.pc = "get" /\ c1.pc # "get" /\ (sessionState # "db" \/ c1.fault)) =>
               c1.pc = "http" /\ c1.nfetch = 1 /\ ~c1.hit
         /\ (c.pc = "touch" /\ c1.pc # "touch") =>
               IF shouldRefresh(c.cached, c.now, config)
               THEN c1.pc = "http"
               ELSE c1.pc = "done" /\ c1.ret = ReturnCached(c.cached)
         /\ FetchSucceeded(p) =>
               \E rnd \in GenMat :
                  LET f == fetchDIDWeb(c.uri, c.fnow, [kind |-> "body", doc |-> c1.doc], rnd) IN
                  f.err = "" /\ c1.ret = RetOk(f.key, f.url)
         /\ FetchFailed(p) =>
               c1.ret = IF c.cached # NoEntry THEN ReturnCached(c.cached) ELSE RetErr(c1.fres)
         /\ (c1.pc = "done" /\ c1.uri = WebURI /\ c1.ret.status = "err") =>
               c1.nfetch = 1 /\ c1.fres \notin {"", "ok"}]_vars

\* A call during which a store statement failed, whose fetch succeeded, and
\* which returned the fetched key.
C39_Witness ==
    \E p \in Procs :
       /\ sessionState = "db" /\ call[p].fault
       /\ call[p].pc = "done" /\ call[p].fres = "ok" /\ call[p].ret.status = "ok"

\* A purge step that reports entries as removed.
PurgeRemoved == purged' # purged /\ purged'.err = "" /\ purged'.n > 0

\* The last purge removed entries and the URI of the call has no entry.
PurgedAway(c) == purged.n > 0 /\ RowsFor(did_cache, c.uri) = {}

\* C40: the entries a purge reports as removed are gone from the store
\* (all of them after PurgeAll), and a call for a URI whose entry was purged
\* is a miss: it goes to the network, and when that fetch fails it returns the
\* fetch error, not a key.
C40_PurgedEntryIsAMiss ==
    [][/\ PurgeRemoved =>
            /\ did_cache' \subseteq did_cache
            /\ Cardinality(did_cache \ did_cache') = purged'.n
            /\ purged'.op = "all" => did_cache' = {}
       /\ \A p \in Procs :
            LET c == call[p] c1 == call'[p] IN
            /\ (c.pc = "get" /\ c1.pc # "get" /\ PurgedAway(c)) =>
                  c1.pc = "http" /\ c1.nfetch = 1 /\ ~c1.hit
            /\ (FetchFailed(p) /\ PurgedAway(c)) =>
                  /\ c1.ret = RetErr(c1.fres)
                  /\ c1.ret.status = "err" /\ c1.ret.key = NoKey]_vars

\* PurgeAll removed the entry, and the call that followed missed, fetched,
\* failed and returned the error.
C40_Witness ==
    /\ purged.op = "all" /\ purged.n > 0 /\ did_cache = {}
    /\ \E p \in Procs :
          /\ call[p].pc = "done" /\ call[p].uri = WebURI
          /\ ~call[p].hit /\ call[p].nfetch = 1
          /\ call[p].ret.status = "err"

====
